---- MODULE Spec2Model ----
(***************************************************************************)
(* Model of ConfigArrayFactory (lib/lookup/config-array-factory.js): the   *)
(* resolution of a cascading configuration into an ordered sequence of     *)
(* config array elements.                                                  *)
(*                                                                         *)
(* Strings are sequences of atoms.  Every separator character the code     *)
(* inspects (".", "/", ":", "-", "@", " ", "*") is an atom of its own; the  *)
(* words between separators are opaque atoms.  A path such as              *)
(* /proj/sub/a.js is <<"/", "proj", "/", "sub", "/", "a", ".", "js">>.     *)
(***************************************************************************)
EXTENDS Integers, Sequences, FiniteSets, TLC

\* ------------------------------------------------------------------------
\* Bounds
\* ------------------------------------------------------------------------

\* Number of file-system writes explored from the initial file system.
MaxWrites == 1

\* Depth of nested config sources (the call stack of the recursive
\* generators) after which the run ends with a stack-exhaustion error.
MaxDepth == 3

\* Number of plugins added to the pool of the engine.
MaxPlugins == 2

\* ------------------------------------------------------------------------
\* String helpers (String.prototype / RegExp uses in the source)
\* ------------------------------------------------------------------------

startsWith(s, p) ==
    /\ Len(p) <= Len(s)
    /\ SubSeq(s, 1, Len(p)) = p

\* s.slice(from0, to0) with 0-based, end-exclusive atom indexes.
slice(s, from0, to0) == SubSeq(s, from0 + 1, to0)

\* s.lastIndexOf(a), 0-based; -1 when a does not occur.
lastIndexOf(s, a) ==
    LET hits == { i \in 1..Len(s) : s[i] = a }
    IN  IF hits = {} THEN -1
        ELSE (CHOOSE i \in hits : \A j \in hits : j <= i) - 1

indexOf(s, a) ==
    LET hits == { i \in 1..Len(s) : s[i] = a }
    IN  IF hits = {} THEN -1
        ELSE (CHOOSE i \in hits : \A j \in hits : i <= j) - 1

\* The atoms matched by \s in a regular expression.
Whitespace == { " ", "\t", "\n", "\r" }

\* ------------------------------------------------------------------------
\* path module
\* ------------------------------------------------------------------------

\* F(v), with v evaluated once whatever use F makes of it.
Once(F(_), v) == CHOOSE r \in { F(x) : x \in { v } } : TRUE

pathIsAbsolute(p) == Len(p) > 0 /\ p[1] = "/"

pathDirname(p) ==
    LET k == lastIndexOf(p, "/")
    IN  IF k = -1 THEN <<".">>
        ELSE IF k = 0 THEN <<"/">>
        ELSE slice(p, 0, k)

pathBasename(p) == slice(p, lastIndexOf(p, "/") + 1, Len(p))

\* path.extname: from the last "." of the basename, unless that "." is the
\* first character of the basename.
pathExtname(p) ==
    LET b == pathBasename(p)
        k == lastIndexOf(b, ".")
    IN  IF k <= 0 THEN <<>> ELSE slice(b, k, Len(b))

\* path.join(dir, rel) for a relative rel without ".." segments.
pathJoin(dir, rel) ==
    IF dir = <<"/">> THEN dir \o rel ELSE dir \o <<"/">> \o rel

RECURSIVE normalizeSegments(_, _)
\* Resolves leading "./" and "../" segments of rel against dir.
normalizeSegments(dir, rel) ==
    IF startsWith(rel, <<".", "/">>)
    THEN normalizeSegments(dir, slice(rel, 2, Len(rel)))
    ELSE IF startsWith(rel, <<".", ".", "/">>)
    THEN Once(LAMBDA up : normalizeSegments(up, slice(rel, 3, Len(rel))),
              pathDirname(dir))
    ELSE IF rel = <<>> THEN dir
    ELSE pathJoin(dir, rel)

\* path.resolve(from, to)
pathResolve(from, to) ==
    IF pathIsAbsolute(to) THEN to ELSE normalizeSegments(from, to)

\* path.relative(from, to) for absolute paths.
RECURSIVE pathRelative(_, _)
pathRelative(from, to) ==
    IF from = to THEN <<>>
    ELSE IF from = <<"/">> THEN slice(to, 1, Len(to))
    ELSE IF startsWith(to, from \o <<"/">>)
    THEN slice(to, Len(from) + 1, Len(to))
    ELSE LET up == pathRelative(pathDirname(from), to)
         IN  IF up = <<>> THEN <<".", ".">>
             ELSE <<".", ".", "/">> \o up

\* isFilePath: /^\.{1,2}[/\\]/u.test(nameOrPath) || path.isAbsolute(nameOrPath)
isFilePath(nameOrPath) ==
    \/ startsWith(nameOrPath, <<".", "/">>)
    \/ startsWith(nameOrPath, <<".", ".", "/">>)
    \/ pathIsAbsolute(nameOrPath)

\* ------------------------------------------------------------------------
\* JavaScript values
\* ------------------------------------------------------------------------

\* `undefined` in a string-valued slot, in an object-valued slot, and `null`
\* in the criteria slot.  `root` is "true", "false" or "undefined".
UndefStr == <<"<undefined>">>
UndefObj == [undefined |-> TRUE]
Null == [null |-> TRUE]
NoError == [none |-> TRUE]

\* obj[key], or dflt when the property is absent.
Get(obj, key, dflt) == IF key \in DOMAIN obj THEN obj[key] ELSE dflt

\* An Error object: `code`, `message` and `messageTemplate`.
Error(code, message, template) ==
    [code |-> code, message |-> message, messageTemplate |-> template]

\* ------------------------------------------------------------------------
\* Well-known locations
\* ------------------------------------------------------------------------

Cwd == <<"/", "proj">>
SubDir == <<"/", "proj", "/", "sub">>
MultiDir == <<"/", "proj", "/", "multi">>
NulledDir == <<"/", "proj", "/", "nulled">>
PkgDir == <<"/", "proj", "/", "pkgonly">>
eslintRecommendedPath ==
    <<"/", "eslint", "/", "conf", "/", "eslint", "-", "recommended", ".", "js">>
eslintAllPath ==
    <<"/", "eslint", "/", "conf", "/", "eslint", "-", "all", ".", "js">>
espreePath ==
    <<"/", "eslint", "/", "node_modules", "/", "espree", "/", "espree", ".", "js">>
IndexJs == <<"index", ".", "js">>
\* ------------------------------------------------------------------------
\* State
\* ------------------------------------------------------------------------

VARIABLES
    fs,                     \* the file system: path -> id of the file's content
    writes,                 \* number of writes made to the file system
    additionalParserPool,   \* this._additionalParserPool: id -> parser
    additionalPluginPool,   \* this._additionalPluginPool: id -> plugin
    parent,                 \* the config array callers pass as options.parent
    call,                   \* the last call made on the factory
    result,                 \* what that call returned or threw
    config,                 \* the config last extracted from that result
    cache,                  \* the config arrays the file enumerator keeps
    added,                  \* the last addPlugin call made on the engine
    report,                 \* what the last run of the engine returned
    frames                  \* the config sources being flattened, innermost first

\* The state of the engine around the factory.
engine == <<cache, added, report>>

vars ==
    <<fs, writes, additionalParserPool, additionalPluginPool, parent, call,
      result, config, cache, added, report, frames>>

\* ------------------------------------------------------------------------
\* naming.normalizePackageName / naming.getShorthandName
\* ------------------------------------------------------------------------

EslintConfigPrefix == <<"eslint", "-", "config">>
EslintPluginPrefix == <<"eslint", "-", "plugin">>

\* "foo" -> "<prefix>-foo"; "<prefix>-foo" is kept; "@scope" and
\* "@scope/<prefix>" -> "@scope/<prefix>"; "@scope/foo" ->
\* "@scope/<prefix>-foo".
normalizePackageName(name, prefix) ==
    IF Len(name) > 0 /\ name[1] = "@"
    THEN LET k == indexOf(name, "/")
             scope == IF k = -1 THEN name ELSE slice(name, 0, k)
             rest == IF k = -1 THEN <<>> ELSE slice(name, k + 1, Len(name))
         IN  IF rest = <<>> \/ rest = prefix
             THEN scope \o <<"/">> \o prefix
             ELSE IF startsWith(rest, prefix \o <<"-">>)
             THEN name
             ELSE scope \o <<"/">> \o prefix \o <<"-">> \o rest
    ELSE IF startsWith(name, prefix \o <<"-">>)
    THEN name
    ELSE prefix \o <<"-">> \o name

getShorthandName(fullname, prefix) ==
    IF Len(fullname) > 0 /\ fullname[1] = "@"
    THEN LET k == indexOf(fullname, "/")
             scope == IF k = -1 THEN fullname ELSE slice(fullname, 0, k)
             rest == IF k = -1 THEN <<>>
                     ELSE slice(fullname, k + 1, Len(fullname))
         IN  IF k # -1 /\ rest = prefix
             THEN scope
             ELSE IF startsWith(rest, prefix \o <<"-">>)
                     /\ Len(rest) > Len(prefix) + 1
             THEN scope \o <<"/">> \o slice(rest, Len(prefix) + 1, Len(rest))
             ELSE fullname
    ELSE IF startsWith(fullname, prefix \o <<"-">>)
    THEN slice(fullname, Len(prefix) + 1, Len(fullname))
    ELSE fullname

\* ------------------------------------------------------------------------
\* File system and module resolution
\* ------------------------------------------------------------------------

exists(p) == p \in DOMAIN fs /\ fs[p] # "absent"

\* The directories from dir up to the root, nearest first.
RECURSIVE ancestors(_)
ancestors(dir) ==
    IF dir = <<"/">> THEN << dir >>
    ELSE << dir >> \o Once(LAMBDA up : ancestors(up), pathDirname(dir))

\* The first path of candidates that exists, or <<>> when none does.
RECURSIVE firstExisting(_)
firstExisting(candidates) ==
    IF candidates = <<>> THEN <<>>
    ELSE IF exists(Head(candidates)) THEN Head(candidates)
    ELSE Once(LAMBDA rest : firstExisting(rest), Tail(candidates))

\* A request that is a file path: the file itself, with ".js" appended, or
\* the index.js inside it.
resolveAsFile(target) ==
    Once(LAMBDA candidates : firstExisting(candidates),
         << target, target \o <<".", "js">>, pathJoin(target, IndexJs) >>)

\* A request that is a package name: node_modules of each of dirs in turn.
resolveAsPackage(dirs, request) ==
    Once(LAMBDA candidates : firstExisting(candidates),
         [ i \in 1..Len(dirs) |->
            pathJoin(dirs[i],
                     <<"node_modules", "/">> \o request
                        \o <<"/">> \o IndexJs) ])

\* ModuleResolver.resolve(request, relativeTo): the location of the module,
\* or <<>> when the module is not found (MODULE_NOT_FOUND).
ModuleResolverResolve(request, relativeTo) ==
    IF isFilePath(request)
    THEN Once(LAMBDA target : resolveAsFile(target),
              pathResolve(pathDirname(relativeTo), request))
    ELSE Once(LAMBDA dirs : resolveAsPackage(dirs, request),
              ancestors(pathDirname(relativeTo)))

CannotFindModule(request) ==
    Error("MODULE_NOT_FOUND",
          <<"Cannot find module '">> \o request \o <<"'">>, "")
\* ------------------------------------------------------------------------
\* File contents
\* ------------------------------------------------------------------------

\* A string-or-array property value ("a" or ["a", "b"]).
Str(s) == [t |-> "str", v |-> s]
Arr(xs) == [t |-> "arr", v |-> xs]

\* A rule setting: a bare severity or an array [severity, ...options].
Sev(n) == [t |-> "num", v |-> <<n>>]
Opts(xs) == [t |-> "arr", v |-> xs]

\* The empty object {}.
EmptyObj == <<>>

GlobXxx == <<"*", ".", "xxx">>
GlobYyy == <<"*", ".", "yyy">>
GlobLib == <<"lib", "/", "*">>

PluginPConfigC == <<"plugin", ":", "p", "/", "c">>

\* The config data used as file contents and as arguments of create().
ConfigIds ==
    { "empty", "plain", "rooted", "ext_a", "ext_b", "ext_ab", "ext_ba",
      "ov2", "ov_nested", "ov_ext", "ov_ext_b", "plug", "plug_missing",
      "ext_plugin", "ext_builtin", "ext_foo", "ext_missing",
      "ext_plugin_path", "ext_plugin_noconf", "ext_plugin_missing",
      "ext_plugin_ws", "plug_path", "plug_ws", "ext_plug", "pool_deps",
      "invalid" }

ConfigData(id) ==
    CASE id = "empty" -> EmptyObj
      [] id = "plain" ->
            [ env |-> [browser |-> TRUE], rules |-> [semi |-> Sev(1)] ]
      [] id = "rooted" ->
            [ root |-> "true", rules |-> [eqeqeq |-> Sev(2)] ]
      [] id = "ext_a" ->
            [ extends |-> Str(<<"a">>), rules |-> [semi |-> Sev(2)] ]
      [] id = "ext_b" ->
            [ extends |-> Str(<<"b">>), root |-> "false" ]
      [] id = "ext_ab" ->
            [ extends |-> Arr(<< <<"a">>, <<"b">> >>),
              rules |-> [semi |-> Opts(<<2, 1>>)] ]
      [] id = "ext_ba" ->
            [ extends |-> Arr(<< <<"eslint", "-", "config", "-", "b">>,
                                 <<>>, <<"a">> >>),
              root |-> "true" ]
      [] id = "ov2" ->
            [ rules |-> [regular |-> Sev(1)],
              overrides |-> <<
                [ files |-> Str(GlobXxx), rules |-> [override |-> Sev(1)] ],
                [ files |-> Arr(<< GlobYyy, GlobXxx >>),
                  excludedFiles |-> Str(GlobLib),
                  root |-> "true",
                  rules |-> [override |-> Sev(2)] ] >> ]
      [] id = "ov_nested" ->
            [ rules |-> [regular |-> Sev(1)],
              overrides |-> <<
                [ files |-> Str(GlobLib),
                  rules |-> [override |-> Sev(1)],
                  overrides |-> <<
                    [ files |-> Str(GlobXxx),
                      rules |-> [override |-> Sev(2)] ] >> ] >> ]
      [] id = "ov_ext" ->
            [ rules |-> [regular |-> Sev(1)],
              overrides |-> <<
                [ files |-> Str(GlobXxx),
                  extends |-> Str(<<"a">>),
                  rules |-> [override |-> Sev(1)] ] >> ]
      [] id = "ov_ext_b" ->
            [ overrides |-> <<
                [ files |-> Str(GlobLib),
                  extends |-> Arr(<< <<"b">> >>) ],
                [ files |-> Str(GlobYyy),
                  plugins |-> << <<"p">> >> ] >> ]
      [] id = "plug" ->
            [ plugins |-> << <<"p">> >>, parser |-> <<"xparser">> ]
      [] id = "plug_missing" ->
            [ plugins |-> << <<"missing">>, <<"eslint", "-", "plugin", "-", "p">> >>,
              parser |-> <<"noparser">>,
              rules |-> [semi |-> Sev(1)] ]
      [] id = "ext_plugin" ->
            [ extends |-> Str(PluginPConfigC), rules |-> [semi |-> Sev(0)] ]
      [] id = "ext_builtin" ->
            [ extends |-> Arr(<< <<"eslint", ":", "recommended">>,
                                 <<"eslint", ":", "all">> >>),
              parser |-> <<"espree">> ]
      [] id = "ext_foo" ->
            [ extends |-> Arr(<< <<"eslint", ":", "foo">>, <<"a">> >>) ]
      [] id = "ext_missing" ->
            [ extends |-> Str(<<"nowhere">>), plugins |-> << <<"p">> >> ]
      [] id = "ext_plugin_path" ->
            [ extends |-> Str(<<"plugin", ":", ".", "/", "p", "/", "c">>) ]
      [] id = "ext_plugin_noconf" ->
            [ extends |-> Str(<<"plugin", ":", "p", "/", "nope">>) ]
      [] id = "ext_plugin_missing" ->
            [ extends |-> Str(<<"plugin", ":", "missing", "/", "c">>) ]
      [] id = "ext_plugin_ws" ->
            [ extends |-> Str(<<"plugin", ":", "p", " ", "/", "c">>) ]
      [] id = "plug_path" ->
            [ plugins |-> << <<".", "/", "p">> >> ]
      [] id = "plug_ws" ->
            [ plugins |-> << <<"p", " ">>, <<"p">> >>,
              rules |-> [semi |-> Sev(2)] ]
      [] id = "ext_plug" ->
            [ extends |-> Str(<<"a">>), plugins |-> << <<"p">> >>,
              processor |-> <<"p", "/", ".", "md">> ]
      [] id = "pool_deps" ->
            [ parser |-> <<"poolparser">>,
              plugins |-> << <<"p">>, <<"missing">> >> ]
      [] id = "invalid" ->
            [ files |-> Str(GlobXxx), extends |-> Str(<<"a">>),
              plugins |-> << <<"p">> >>, parser |-> <<"xparser">>,
              rules |-> [semi |-> Sev(1)] ]

\* The content of a file: `kind` is "absent", "malformed" (does not parse),
\* "throws" (a script that throws when evaluated), "requires" (a script
\* that requires a module that is not installed), "null" (the text or the
\* export is null) or "value"; `data` is the parsed or exported value.
Content(id) ==
    CASE id \in ConfigIds -> [ kind |-> "value", data |-> ConfigData(id) ]
      [] id = "absent" -> [ kind |-> "absent", data |-> EmptyObj ]
      [] id = "null" -> [ kind |-> "null", data |-> Null ]
      [] id = "pkg_plain" ->
            [ kind |-> "value",
              data |-> [ name |-> <<"proj">>,
                         eslintConfig |-> ConfigData("plain") ] ]
      [] id = "pkg_rooted" ->
            [ kind |-> "value",
              data |-> [ name |-> <<"proj">>,
                         eslintConfig |-> ConfigData("rooted") ] ]
      [] id = "pkg_none" ->
            [ kind |-> "value", data |-> [ name |-> <<"proj">> ] ]
      [] id = "malformed" -> [ kind |-> "malformed", data |-> EmptyObj ]
      [] id = "throws" -> [ kind |-> "throws", data |-> EmptyObj ]
      [] id = "requires_missing" -> [ kind |-> "requires", data |-> EmptyObj ]
      [] id = "recommended" ->
            [ kind |-> "value",
              data |-> [ rules |-> [recommendedRule |-> Sev(2)] ] ]
      [] id = "all" ->
            [ kind |-> "value",
              data |-> [ rules |-> [recommendedRule |-> Sev(2),
                                    otherRule |-> Sev(2)] ] ]
      [] id = "plugin_p" ->
            [ kind |-> "value",
              data |-> [ configs |-> (<<"c">> :> ConfigData("ov2")),
                         processors |-> << <<".", "md">>, <<"other">>,
                                           <<".", "vue">> >> ] ]
      [] id = "plugin_badconf" ->
            [ kind |-> "value",
              data |-> [ configs |-> (<<"c">> :> ConfigData("invalid")) ] ]
      [] id = "plugin_bare" ->
            [ kind |-> "value", data |-> [ rules |-> [r |-> TRUE] ] ]
      [] id = "plugin_sub" ->
            [ kind |-> "value", data |-> [ rules |-> [s |-> TRUE] ] ]
      [] id = "parser_x" ->
            [ kind |-> "value", data |-> [ name |-> "xparser" ] ]
      [] id = "parser_sub" ->
            [ kind |-> "value", data |-> [ name |-> "sub/xparser" ] ]
      [] id = "espree" ->
            [ kind |-> "value", data |-> [ name |-> "espree" ] ]
      [] id = "espree_local" ->
            [ kind |-> "value", data |-> [ name |-> "proj/espree" ] ]

configFilenames ==
    << <<".", "eslintrc", ".", "js">>,
       <<".", "eslintrc", ".", "yaml">>,
       <<".", "eslintrc", ".", "yml">>,
       <<".", "eslintrc", ".", "json">>,
       <<".", "eslintrc">>,
       <<"package", ".", "json">> >>

\* The path of the i-th config file name in a directory.
Candidate(dir, i) == pathJoin(dir, configFilenames[i])

NodeModule(dir, pkg) ==
    pathJoin(dir, <<"node_modules", "/">> \o pkg \o <<"/">> \o IndexJs)

EntryPath == pathJoin(Cwd, <<".", "eslintrc", ".", "json">>)
SubEntryPath == pathJoin(SubDir, <<".", "eslintrc", ".", "json">>)
ConfigAPath == NodeModule(Cwd, <<"eslint", "-", "config", "-", "a">>)
ConfigBPath == NodeModule(Cwd, <<"eslint", "-", "config", "-", "b">>)
PluginPPath == NodeModule(Cwd, <<"eslint", "-", "plugin", "-", "p">>)
SubPluginPPath == NodeModule(SubDir, <<"eslint", "-", "plugin", "-", "p">>)
ParserXPath == NodeModule(Cwd, <<"xparser">>)
SubParserXPath == NodeModule(SubDir, <<"xparser">>)
PoolParserPath == NodeModule(Cwd, <<"poolparser">>)
\* The copy of the default parser a project may install.
LocalEspreePath == NodeModule(Cwd, <<"espree">>)

\* The files whose content changes, with the contents each can take.
WritableContents(p) ==
    CASE p = EntryPath ->
            { "ext_ab", "ext_ba", "ov_ext", "ov_ext_b", "plug", "rooted",
              "invalid", "absent", "malformed" }
      [] p = ConfigAPath ->
            { "ext_b", "plain", "rooted", "ov2", "ov_nested", "ov_ext_b",
              "plug_missing", "ext_plugin", "ext_foo", "invalid", "absent",
              "throws" }
      [] p = ConfigBPath ->
            { "plain", "rooted", "ext_a", "ov2", "invalid", "absent" }
      [] p = PluginPPath ->
            { "plugin_p", "plugin_bare", "plugin_badconf", "throws", "absent" }
      [] p = eslintAllPath -> { "all", "invalid" }
      [] p = Candidate(MultiDir, 1) ->
            { "plain", "absent", "throws", "requires_missing" }
      [] p = Candidate(NulledDir, 4) -> { "null", "malformed", "plain" }
      [] p = Candidate(MultiDir, 2) -> { "rooted", "plain", "null" }
      [] p = Candidate(MultiDir, 6) -> { "pkg_plain", "pkg_rooted" }
      [] p = ParserXPath -> { "parser_x", "throws", "absent" }
      [] p = LocalEspreePath -> { "espree_local", "throws" }
      [] OTHER -> {}

InitialFs ==
    (EntryPath :> "ext_ab") @@ (SubEntryPath :> "ov_ext")
    @@ (ConfigAPath :> "ext_b") @@ (ConfigBPath :> "ov2")
    @@ (PluginPPath :> "plugin_p") @@ (SubPluginPPath :> "plugin_sub")
    @@ (ParserXPath :> "parser_x") @@ (SubParserXPath :> "parser_sub")
    @@ (eslintRecommendedPath :> "recommended") @@ (eslintAllPath :> "all")
    @@ (espreePath :> "espree")
    @@ (PoolParserPath :> "parser_x")
    @@ (LocalEspreePath :> "absent")
    @@ (Candidate(MultiDir, 1) :> "plain")
    @@ (Candidate(MultiDir, 2) :> "rooted")
    @@ (Candidate(MultiDir, 3) :> "ov2")
    @@ (Candidate(MultiDir, 6) :> "pkg_plain")
    @@ (Candidate(NulledDir, 4) :> "null")
    @@ (Candidate(NulledDir, 5) :> "rooted")
    @@ (Candidate(NulledDir, 6) :> "pkg_plain")
    @@ (Candidate(PkgDir, 6) :> "pkg_none")
\* ------------------------------------------------------------------------
\* Source reader
\* ------------------------------------------------------------------------

\* What a reader returns: the data, or the error it throws.
Loaded(data) == [ ok |-> TRUE, data |-> data, err |-> NoError ]
Thrown(err) == [ ok |-> FALSE, data |-> EmptyObj, err |-> err ]

CannotRead(filePath, e) ==
    [ e EXCEPT !.message =
        <<"Cannot read config file: ">> \o filePath
            \o <<"\nError: ">> \o e.message ]

\* A variant that gives the content the file had when the factory was
\* constructed.
readFileAtConstruction(filePath) ==
    IF filePath \in DOMAIN InitialFs /\ InitialFs[filePath] # "absent"
    THEN Loaded(Content(InitialFs[filePath]))
    ELSE Thrown(Error("ENOENT",
                      <<"ENOENT: no such file or directory, open '">>
                          \o filePath \o <<"'">>, ""))

\* fs.readFileSync(filePath): the content, or ENOENT.
readFile(filePath) ==
    IF exists(filePath)
    THEN Loaded(Content(fs[filePath]))
    ELSE Thrown(Error("ENOENT",
                      <<"ENOENT: no such file or directory, open '">>
                          \o filePath \o <<"'">>, ""))

\* Parsing of a text that was read: fails on anything but a value.
parse(read) ==
    IF ~read.ok THEN read
    ELSE IF read.data.kind \in { "value", "null" }
    THEN Loaded(read.data.data)
    ELSE Thrown(Error("", <<"Unexpected token">>, ""))

\* The catch block of the readers: the error is given the path of the file.
orCannotRead(r, filePath) ==
    IF r.ok THEN r ELSE Thrown(CannotRead(filePath, r.err))

\* parsed || {}
orEmptyObject(r) ==
    IF r.ok /\ r.data = Null THEN Loaded(EmptyObj) ELSE r

loadYAMLConfigFile(filePath) ==
    orCannotRead(orEmptyObject(parse(readFile(filePath))), filePath)

orFailedToReadJSON(r, filePath) ==
    IF r.ok THEN r
    ELSE Thrown([ CannotRead(filePath, r.err)
                    EXCEPT !.messageTemplate = "failed-to-read-json" ])

loadJSONConfigFile(filePath) ==
    orFailedToReadJSON(parse(readFile(filePath)), filePath)

loadLegacyConfigFile(filePath) ==
    orCannotRead(orEmptyObject(parse(readFile(filePath))), filePath)

\* The value a module with content c exports, or the error evaluating it
\* throws.
evaluate(c) ==
    IF c.kind \in { "value", "null" } THEN Loaded(c.data)
    ELSE IF c.kind = "throws"
    THEN Thrown(Error("", <<"error thrown while loading this module">>, ""))
    ELSE IF c.kind = "requires"
    THEN Thrown(CannotFindModule(<<"not", "-", "installed">>))
    ELSE Thrown(Error("", <<"Unexpected token">>, ""))

\* require(filePath) / importFresh(filePath): the exported value.
\* importFresh drops the module from the cache of Node before it requires
\* it, so a config module is evaluated anew from the file's current content.
\* A plugin or a parser stays in the cache once required; a call leaves no
\* other trace once a file is written, so every state is also reached by
\* writing the file of a plugin or a parser before it is first required,
\* where the cached module is the one the file defines.
require(filePath) ==
    IF ~exists(filePath) THEN Thrown(CannotFindModule(filePath))
    ELSE evaluate(Content(fs[filePath]))

loadJSConfigFile(filePath) ==
    orCannotRead(require(filePath), filePath)

\* The eslintConfig field of a package.json that was read.
eslintConfigField(r, filePath) ==
    IF ~r.ok THEN Thrown(CannotRead(filePath, r.err))
    ELSE IF r.data = Null
    THEN Thrown(CannotRead(filePath,
            Error("", <<"Cannot convert undefined or null to object">>, "")))
    ELSE IF "eslintConfig" \notin DOMAIN r.data
    THEN Thrown(CannotRead(filePath,
            Error("ESLINT_CONFIG_FIELD_NOT_FOUND",
                  <<"package.json file doesn't have 'eslintConfig' field.">>,
                  "")))
    ELSE Loaded(r.data.eslintConfig)

loadPackageJSONConfigFile(filePath) ==
    eslintConfigField(loadJSONConfigFile(filePath), filePath)

\* The switch of loadConfigFile on the extension and the base name.
loadConfigFileAs(ext, base, filePath) ==
    IF ext = <<".", "js">> THEN loadJSConfigFile(filePath)
    ELSE IF ext = <<".", "json">>
    THEN IF base = <<"package", ".", "json">>
         THEN loadPackageJSONConfigFile(filePath)
         ELSE loadJSONConfigFile(filePath)
    ELSE IF ext = <<".", "yaml">> \/ ext = <<".", "yml">>
    THEN loadYAMLConfigFile(filePath)
    ELSE loadLegacyConfigFile(filePath)

loadConfigFile(filePath) ==
    loadConfigFileAs(pathExtname(filePath), pathBasename(filePath), filePath)

configMissingError(configName) ==
    Error("",
          <<"Failed to load config \"">> \o configName
              \o <<"\" to extend from.">>,
          "extend-config-missing")

\* ------------------------------------------------------------------------
\* OverrideTester
\* ------------------------------------------------------------------------

\* A string-or-array value as an array; undefined gives the empty array.
normalizePatterns(patterns) ==
    IF patterns = UndefObj THEN <<>>
    ELSE IF patterns.t = "arr" THEN patterns.v
    ELSE << patterns.v >>

\* OverrideTester.create(files, excludedFiles, basePath): null when no
\* pattern is given.
OverrideTesterCreate(files, excludedFiles, basePath) ==
    LET includes == normalizePatterns(files)
        excludes == normalizePatterns(excludedFiles)
    IN  IF includes \o excludes = <<>> THEN Null
        ELSE [ patterns |-> << [ includes |-> includes,
                                 excludes |-> excludes ] >>,
               basePath |-> basePath ]

\* OverrideTester.and(a, b): null operands are absorbed.
OverrideTesterAnd(a, b) ==
    IF b = Null THEN a
    ELSE IF a = Null THEN b
    ELSE [ patterns |-> a.patterns \o b.patterns, basePath |-> a.basePath ]

\* Shell-glob matching of one pattern against a relative path: "*" matches
\* any run of atoms without a separator.
RECURSIVE globMatch(_, _)
globMatch(pattern, text) ==
    IF pattern = <<>> THEN text = <<>>
    ELSE IF Head(pattern) = "*"
    THEN \E k \in 0..Len(text) :
            /\ \A i \in 1..k : text[i] # "/"
            /\ globMatch(Tail(pattern), SubSeq(text, k + 1, Len(text)))
    ELSE /\ text # <<>>
         /\ Head(text) = Head(pattern)
         /\ globMatch(Tail(pattern), Tail(text))

\* A pattern without a separator is matched against the base name.
patternMatches(pattern, relativePath) ==
    IF indexOf(pattern, "/") = -1
    THEN globMatch(pattern, pathBasename(relativePath))
    ELSE globMatch(pattern, relativePath)

\* tester.test(filePath)
OverrideTesterTest(tester, filePath) ==
    LET relativePath == pathRelative(tester.basePath, filePath)
    IN  \A i \in 1..Len(tester.patterns) :
            LET pt == tester.patterns[i]
            IN  /\ \/ pt.includes = <<>>
                   \/ \E k \in 1..Len(pt.includes) :
                        patternMatches(pt.includes[k], relativePath)
                /\ ~ \E k \in 1..Len(pt.excludes) :
                        patternMatches(pt.excludes[k], relativePath)
\* ------------------------------------------------------------------------
\* Dependency loader
\* ------------------------------------------------------------------------

\* new ConfigDependency({ definition, error, filePath, id, importerName,
\* importerPath }); properties not given are undefined.
ConfigDependency(definition, error, filePath, id, importerName, importerPath) ==
    [ definition |-> definition, error |-> error, filePath |-> filePath,
      id |-> id, importerName |-> importerName,
      importerPath |-> importerPath ]

\* A loaded dependency together with the module resolutions attempted.
Dep(dep, log) == [ dep |-> dep, log |-> log ]

\* Objects have identity: a dependency made by `new ConfigDependency` is
\* told from an equal one by the place the loader was called from, which is
\* the parser, an entry of the plugins or an entry of `extends` of a config.
Site(kind, index, entry) == [ kind |-> kind, index |-> index, entry |-> entry ]
NoSite == Site("", 0, <<>>)
Creation(dep, site) == [ created |-> dep, site |-> site ]

\* A dependency the loader made with `new ConfigDependency`.
Made(dep, log) == Dep(dep, log \cup { Creation(dep, NoSite) })

\* What a call of the loader from the given place gave.
AtSite(site, d) ==
    [ d EXCEPT !.log = { IF "created" \in DOMAIN e
                         THEN Creation(e.created, site) ELSE e : e \in d.log } ]

Attempt(request, relativeTo) ==
    [ request |-> request, relativeTo |-> relativeTo ]

poolHas(pool, id) == id \in DOMAIN pool

\* require(resolve(request, relativeTo)): the module and where it was found.
requireAt(filePath, request) ==
    [ filePath |-> filePath,
      module |-> IF filePath = <<>> THEN Thrown(CannotFindModule(request))
                 ELSE require(filePath) ]

requireResolved(request, relativeTo) ==
    Once(LAMBDA filePath : requireAt(filePath, request),
         ModuleResolverResolve(request, relativeTo))

\* The catch block of _loadParser.
parserFailure(error, nameOrPath, relativeTo) ==
    IF error.code = "MODULE_NOT_FOUND"
    THEN [ error EXCEPT !.message =
            <<"Failed to load parser ">> \o nameOrPath \o <<": ">>
                \o error.message \o <<" (relative to ">>
                \o relativeTo \o <<")">> ]
    ELSE error

\* A variant that falls back to the default parser whatever parser failed
\* to load.
parserDependencyFallingBack(m, nameOrPath, relativeTo, importerPath, importerName) ==
    IF m.module.ok
    THEN ConfigDependency(m.module.data, NoError, m.filePath, nameOrPath,
                          importerName, importerPath)
    ELSE ConfigDependency(Content("espree").data, NoError, espreePath,
                          nameOrPath, importerName, importerPath)

\* A variant without the bundled default parser to fall back on.
parserDependencyAsResolved(m, nameOrPath, relativeTo, importerPath, importerName) ==
    IF m.module.ok
    THEN ConfigDependency(m.module.data, NoError, m.filePath, nameOrPath,
                          importerName, importerPath)
    ELSE ConfigDependency(UndefObj,
                          parserFailure(m.module.err, nameOrPath, relativeTo),
                          UndefStr, nameOrPath, importerName, importerPath)

\* The dependency _loadParser makes of what the try block gave.
parserDependency(m, nameOrPath, relativeTo, importerPath, importerName) ==
    IF m.module.ok
    THEN ConfigDependency(m.module.data, NoError, m.filePath, nameOrPath,
                          importerName, importerPath)
    ELSE IF nameOrPath = <<"espree">>
    THEN ConfigDependency(Content("espree").data, NoError, espreePath,
                          nameOrPath, importerName, importerPath)
    ELSE ConfigDependency(UndefObj,
                          parserFailure(m.module.err, nameOrPath, relativeTo),
                          UndefStr, nameOrPath, importerName, importerPath)

_loadParserRelativeTo(nameOrPath, relativeTo, importerPath, importerName) ==
    Made(parserDependency(requireResolved(nameOrPath, relativeTo),
                         nameOrPath, relativeTo, importerPath, importerName),
        { Attempt(nameOrPath, relativeTo) })

\* A variant that resolves every parser from the working directory.
_loadParserFromCwd(nameOrPath, importerPath, importerName) ==
    IF poolHas(additionalParserPool, nameOrPath)
    THEN Made(ConfigDependency(additionalParserPool[nameOrPath], NoError,
                              importerPath, nameOrPath, importerName,
                              importerPath), {})
    ELSE _loadParserRelativeTo(nameOrPath, pathJoin(Cwd, <<".", "eslintrc">>),
                               importerPath, importerName)

_loadParser(nameOrPath, importerPath, importerName) ==
    IF poolHas(additionalParserPool, nameOrPath)
    THEN Made(ConfigDependency(additionalParserPool[nameOrPath], NoError,
                              importerPath, nameOrPath, importerName,
                              importerPath), {})
    ELSE _loadParserRelativeTo(
            nameOrPath,
            IF importerPath = <<>> THEN pathJoin(Cwd, <<".", "eslintrc">>)
            ELSE importerPath,
            importerPath, importerName)

\* The catch block of _loadPlugin.
pluginFailure(error, request) ==
    IF error.code = "MODULE_NOT_FOUND"
    THEN [ error EXCEPT
            !.message =
                <<"Failed to load plugin ">> \o request \o <<": ">>
                    \o error.message
                    \o <<" (project root is ">> \o Cwd \o <<")">>,
            !.messageTemplate = "plugin-missing" ]
    ELSE error

\* The dependency _loadPlugin makes of what the try block gave.
pluginDependency(m, request, id, importerPath, importerName) ==
    IF m.module.ok
    THEN ConfigDependency(m.module.data, NoError, m.filePath, id,
                          importerName, importerPath)
    ELSE ConfigDependency(UndefObj, pluginFailure(m.module.err, request),
                          UndefStr, id, importerName, importerPath)

\* A variant that looks a plugin up in the pool under its id alone.
pooledPluginById(request, id) ==
    IF poolHas(additionalPluginPool, id)
    THEN additionalPluginPool[id]
    ELSE UndefObj

\* additionalPluginPool.get(request) || additionalPluginPool.get(id)
pooledPlugin(request, id) ==
    IF poolHas(additionalPluginPool, request)
    THEN additionalPluginPool[request]
    ELSE IF poolHas(additionalPluginPool, id)
    THEN additionalPluginPool[id]
    ELSE UndefObj

\* A variant that does not look for whitespace in the name.
_loadPluginAsUnchecked(nameOrPath, file, request, id, relativeTo, importerPath, importerName) ==
    IF ~file /\ pooledPlugin(request, id) # UndefObj
    THEN Made(ConfigDependency(pooledPlugin(request, id), NoError,
                              importerPath, id, importerName, importerPath),
             {})
    ELSE Once(LAMBDA m :
                Made(pluginDependency(m, request, id, importerPath,
                                      importerName),
                     { Attempt(request, relativeTo) }),
              requireResolved(request, relativeTo))

\* _loadPlugin once the request and the id of the plugin are known.
_loadPluginAs(nameOrPath, file, request, id, relativeTo, importerPath, importerName) ==
    IF ~file /\ \E i \in 1..Len(nameOrPath) : nameOrPath[i] \in Whitespace
    THEN \* return { error, id, importerPath }
         Dep(ConfigDependency(UndefObj,
                Error("", <<"Whitespace found in plugin name '">>
                            \o nameOrPath \o <<"'">>,
                      "whitespace-found"),
                UndefStr, id, UndefStr, importerPath), {})
    ELSE IF ~file /\ pooledPlugin(request, id) # UndefObj
    THEN Made(ConfigDependency(pooledPlugin(request, id), NoError,
                              importerPath, id, importerName, importerPath),
             {})
    ELSE Once(LAMBDA m :
                Made(pluginDependency(m, request, id, importerPath,
                                      importerName),
                     { Attempt(request, relativeTo) }),
              requireResolved(request, relativeTo))

\* A variant that resolves a plugin relative to the config that lists it.
_loadPluginRequestFromImporter(nameOrPath, file, request, importerPath, importerName) ==
    Once(LAMBDA id :
            _loadPluginAs(nameOrPath, file, request, id,
                          IF importerPath = <<>> THEN pathJoin(Cwd, <<".", "eslintrc">>)
                          ELSE importerPath,
                          importerPath, importerName),
         IF file THEN nameOrPath
         ELSE getShorthandName(request, EslintPluginPrefix))

_loadPluginRequest(nameOrPath, file, request, importerPath, importerName) ==
    Once(LAMBDA id :
            _loadPluginAs(nameOrPath, file, request, id,
                          pathJoin(Cwd, <<".", "eslintrc">>),
                          importerPath, importerName),
         IF file THEN nameOrPath
         ELSE getShorthandName(request, EslintPluginPrefix))

_loadPlugin(nameOrPath, importerPath, importerName) ==
    Once(LAMBDA request :
            _loadPluginRequest(nameOrPath, isFilePath(nameOrPath), request,
                               importerPath, importerName),
         IF isFilePath(nameOrPath) THEN nameOrPath
         ELSE normalizePackageName(nameOrPath, EslintPluginPrefix))

\* map[plugin.id] = plugin on an object whose keys keep insertion order.
mapSet(map, plugin) ==
    IF \E i \in 1..Len(map) : map[i].id = plugin.id
    THEN [ i \in 1..Len(map) |->
            IF map[i].id = plugin.id THEN plugin ELSE map[i] ]
    ELSE Append(map, plugin)

\* What _loadPlugins returns or throws, with the resolutions attempted.
PluginsLoaded(map, log) ==
    [ ok |-> TRUE, map |-> map, err |-> NoError, log |-> log ]
PluginsFailed(map, err, log) ==
    [ ok |-> FALSE, map |-> map, err |-> err, log |-> log ]

\* A variant that leaves a plugin that failed to load out of the map.
withPluginIfLoaded(acc, p) ==
    IF p.dep.error # NoError THEN PluginsLoaded(acc.map, acc.log \cup p.log)
    ELSE PluginsLoaded(mapSet(acc.map, p.dep), acc.log \cup p.log)

\* map[plugin.id] = plugin for a plugin that was loaded.
withPlugin(acc, p) == PluginsLoaded(mapSet(acc.map, p.dep), acc.log \cup p.log)

RECURSIVE _loadPluginsFrom(_, _, _, _, _)
_loadPluginsFrom(names, i, acc, importerPath, importerName) ==
    IF i > Len(names) THEN acc
    ELSE IF isFilePath(names[i])
    THEN PluginsFailed(
            acc.map,
            Error("", <<"Plugins array cannot includes file paths.">>, ""),
            acc.log)
    ELSE _loadPluginsFrom(
            names, i + 1,
            withPlugin(acc,
                       AtSite(Site("plugins", i, names[i]),
                              _loadPlugin(names[i], importerPath,
                                          importerName))),
            importerPath, importerName)

_loadPlugins(names, importerPath, importerName) ==
    _loadPluginsFrom(names, 1, PluginsLoaded(<<>>, {}), importerPath,
                     importerName)

\* ------------------------------------------------------------------------
\* Resolution engine
\* ------------------------------------------------------------------------

\* What iterating a generator gives: the elements it yielded, or the error
\* that ended it.  `sync` tells a thrown error from a method called inside
\* the try block of _loadExtends apart from one thrown later, while the
\* generator it returned is iterated.  `log` holds the module resolutions
\* attempted.
Yielded(elems, log) ==
    [ ok |-> TRUE, elems |-> elems, err |-> NoError, sync |-> FALSE,
      log |-> log ]
Raised(err, sync, log) ==
    [ ok |-> FALSE, elems |-> <<>>, err |-> err, sync |-> sync, log |-> log ]

\* r, preceded by the elements and attempts of what ran before it.
After(elems, log, r) ==
    [ r EXCEPT !.elems = IF r.ok THEN elems \o r.elems ELSE <<>>,
               !.log = log \cup r.log ]

TopLevelKeys ==
    { "env", "extends", "globals", "overrides", "parser", "parserOptions",
      "plugins", "processor", "root", "rules", "settings" }

\* validateConfigSchema(configData, source): the error it throws, or NoError.
validateConfigSchema(configData, source) ==
    LET unknown == DOMAIN configData \ TopLevelKeys
    IN  IF configData = Null
        THEN Error("",
                   <<"ESLint configuration in ">> \o source
                       \o <<" is invalid: Value null should be object.">>,
                   "")
        ELSE IF unknown = {} THEN NoError
        ELSE Error("",
                   <<"ESLint configuration in ">> \o source
                       \o <<" is invalid: Unexpected top-level property \"",
                            CHOOSE k \in unknown : TRUE, "\".">>,
                   "")

RangeError == Error("", <<"Maximum call stack size exceeded">>, "")

\* The plugins map of an element (undefined is UndefObj).
PluginsMap(map) == [ map |-> map ]

\* The (pluginId, processorId) pairs of the file extension processors, in
\* the order of Object.keys(plugins) and Object.keys(processors).
RECURSIVE extensionProcessorsOf(_, _)
\* A variant that takes every processor of a plugin for a file extension
\* processor.
everyProcessorOf(map, i) ==
    IF i > Len(map) THEN <<>>
    ELSE LET def == map[i].definition
             processors == IF def = UndefObj THEN <<>>
                           ELSE Get(def, "processors", <<>>)
         IN  [ k \in 1..Len(processors) |->
                 [ pluginId |-> map[i].id, processorId |-> processors[k] ] ]
             \o extensionProcessorsOf(map, i + 1)

extensionProcessorsOf(map, i) ==
    IF i > Len(map) THEN <<>>
    ELSE LET def == map[i].definition
             processors == IF def = UndefObj THEN <<>>
                           ELSE Get(def, "processors", <<>>)
             own == SelectSeq(processors, LAMBDA pid : startsWith(pid, <<".">>))
         IN  [ k \in 1..Len(own) |->
                 [ pluginId |-> map[i].id, processorId |-> own[k] ] ]
             \o extensionProcessorsOf(map, i + 1)

RECURSIVE _normalizeObjectConfigData(_, _, _, _)
RECURSIVE _normalizeObjectConfigDataBody(_, _, _, _)
RECURSIVE _normalizeConfigData(_, _, _, _)
RECURSIVE _loadConfigData(_, _, _)
RECURSIVE _loadExtends(_, _, _, _)
RECURSIVE _loadExtendedBuiltInConfig(_, _, _)
RECURSIVE _loadExtendedPluginConfig(_, _, _, _)
RECURSIVE _loadExtendedShareableConfig(_, _, _, _)
RECURSIVE _takeFileExtensionProcessors(_, _, _, _, _)
RECURSIVE flattenExtends(_, _, _, _, _)
RECURSIVE flattenOverrides(_, _, _, _, _)

\* yield* r, then yield* rest: rest runs only when r ended normally.
\* A variant of the sequencing of two generators that keeps the elements
\* already yielded when what runs after them throws.
ThenYieldWhatItCan(r, rest) ==
    IF ~r.ok \/ rest.ok THEN IF ~r.ok THEN r ELSE After(r.elems, r.log, rest)
    ELSE Yielded(r.elems, r.log \cup rest.log)

ThenYield(r, rest) ==
    IF ~r.ok THEN r ELSE After(r.elems, r.log, rest)

\* A variant that takes a reader's error with a code for a file that is not
\* there and yields nothing.
normalizeLoadedIfThere(r, filePath, name, d) ==
    IF ~r.ok
    THEN IF r.err.code # "" THEN Yielded(<<>>, {})
         ELSE Raised(r.err, TRUE, {})
    ELSE _normalizeConfigData(r.data, filePath, name, d)

\* The data a reader returned, normalized; or the error the reader threw.
normalizeLoaded(r, filePath, name, d) ==
    IF ~r.ok THEN Raised(r.err, TRUE, {})
    ELSE _normalizeConfigData(r.data, filePath, name, d)

_loadConfigData(filePath, name, d) ==
    normalizeLoaded(loadConfigFile(filePath), filePath, name, d)

\* _normalizeConfigData once the schema has been validated.
\* A variant of _normalizeConfigData that validates the schema once the
\* config has been flattened.
raiseAfter(r, invalid) ==
    IF r.ok /\ invalid # NoError THEN Raised(invalid, TRUE, r.log) ELSE r

normalizeThenValidate(invalid, configData, filePath, name, d) ==
    raiseAfter(_normalizeObjectConfigData(configData, filePath, name, d),
               invalid)

normalizeValidated(invalid, configData, filePath, name, d) ==
    IF invalid # NoError THEN Raised(invalid, TRUE, {})
    ELSE _normalizeObjectConfigData(configData, filePath, name, d)

\* _normalizeConfigData once the name of the config is known.
normalizeNamed(configData, filePath, name, d) ==
    normalizeValidated(
        validateConfigSchema(configData,
                             IF name = <<>> THEN filePath ELSE name),
        configData, filePath, name, d)

\* _normalizeConfigData once the path of the config is resolved.
normalizeAt(configData, filePath, name, d) ==
    normalizeNamed(
        configData, filePath,
        IF name = UndefStr \/ name = <<>>
        THEN (IF filePath = <<>> THEN <<>> ELSE pathRelative(Cwd, filePath))
        ELSE name,
        d)

_normalizeConfigData(configData, filePath, name, d) ==
    normalizeAt(
        configData,
        IF filePath = UndefStr \/ filePath = <<>> THEN <<>>
        ELSE pathResolve(Cwd, filePath),
        name, d)

\* A variant that puts the criteria of this level in place of those the
\* element has instead of combining the two.
replaceCriteria(element, criteria) ==
    [ element EXCEPT !.criteria = IF criteria = Null THEN @ ELSE criteria ]

\* element.criteria = OverrideTester.and(criteria, element.criteria)
combineCriteria(element, criteria) ==
    [ element EXCEPT !.criteria = OverrideTesterAnd(criteria, @) ]

\* A variant that leaves the base path as the level that created the
\* criteria set it.
keepBasePath(element, basePath) == element

\* element.criteria.basePath = basePath
adoptBasePath(element, basePath) ==
    [ element EXCEPT !.criteria.basePath = basePath ]

\* A variant that leaves `root` as the source declared it.
keepRoot(element) == element

\* element.root = void 0
dropRoot(element) == [ element EXCEPT !.root = "undefined" ]

\* The `if (element.criteria)` block of the loop.
adoptEntry(element, basePath) ==
    IF element.criteria = Null THEN element
    ELSE dropRoot(adoptBasePath(element, basePath))

\* The body of the loop of _normalizeObjectConfigData: the criteria of this
\* level applied to one element.
applyCriteria(element, criteria, basePath) ==
    adoptEntry(combineCriteria(element, criteria), basePath)

\* The loop of _normalizeObjectConfigData over the elements of the body.
applyCriteriaToAll(elements, criteria, basePath) ==
    IF ~elements.ok THEN [ elements EXCEPT !.sync = FALSE ]
    ELSE Yielded([ i \in 1..Len(elements.elems) |->
                    applyCriteria(elements.elems[i], criteria, basePath) ],
                 elements.log)

\* _normalizeObjectConfigData once the base path is known.
normalizeUnder(configData, basePath, filePath, name, d) ==
    applyCriteriaToAll(
        _normalizeObjectConfigDataBody(
            [ k \in DOMAIN configData \ {"files", "excludedFiles"}
                |-> configData[k] ],
            filePath, name, d),
        OverrideTesterCreate(Get(configData, "files", UndefObj),
                             Get(configData, "excludedFiles", UndefObj),
                             basePath),
        basePath)

_normalizeObjectConfigData(configData, filePath, name, d) ==
    normalizeUnder(configData,
                   IF filePath = <<>> THEN Cwd ELSE pathDirname(filePath),
                   filePath, name, d)

\* A variant of the `extends` loop that yields the elements of a later
\* entry before those of an earlier one.
flattenExtendsLaterFirst(extendList, i, importerPath, importerName, d) ==
    IF i > Len(extendList) THEN Yielded(<<>>, {})
    ELSE ThenYield(flattenExtends(extendList, i + 1, importerPath,
                                  importerName, d),
                   _loadExtends(extendList[i], importerPath, importerName, d))

flattenExtends(extendList, i, importerPath, importerName, d) ==
    IF i > Len(extendList) THEN Yielded(<<>>, {})
    ELSE ThenYield(_loadExtends(extendList[i], importerPath, importerName, d),
                   flattenExtends(extendList, i + 1, importerPath,
                                  importerName, d))

\* A variant of the `overrides` loop that yields the elements of a later
\* entry before those of an earlier one.
flattenOverridesLaterFirst(overrideList, i, filePath, name, d) ==
    IF i > Len(overrideList) THEN Yielded(<<>>, {})
    ELSE ThenYield(flattenOverrides(overrideList, i + 1, filePath, name, d),
                   _normalizeObjectConfigData(
                        overrideList[i], filePath,
                        name \o <<"#overrides[", ToString(i - 1), "]">>, d))

flattenOverrides(overrideList, i, filePath, name, d) ==
    IF i > Len(overrideList) THEN Yielded(<<>>, {})
    ELSE ThenYield(_normalizeObjectConfigData(
                        overrideList[i], filePath,
                        name \o <<"#overrides[", ToString(i - 1), "]">>, d),
                   flattenOverrides(overrideList, i + 1, filePath, name, d))

\* processor: `${pluginId}/${processorId}`
processorName(proc) == proc.pluginId \o <<"/">> \o proc.processorId

_takeFileExtensionProcessors(procs, i, filePath, name, d) ==
    IF i > Len(procs) THEN Yielded(<<>>, {})
    ELSE ThenYield(_normalizeObjectConfigData(
                        [ files |-> Arr(<< <<"*">> \o procs[i].processorId >>),
                          processor |-> processorName(procs[i]) ],
                        filePath,
                        name \o <<"#processors[\"">> \o processorName(procs[i])
                            \o <<"\"]">>,
                        d),
                   _takeFileExtensionProcessors(procs, i + 1, filePath,
                                                name, d))

\* The parser and the plugins of a config body, loaded.
loadDependencies(body, filePath, name) ==
    [ parser |-> IF Get(body, "parser", <<>>) = <<>> THEN Dep(UndefObj, {})
                 ELSE AtSite(Site("parser", 0, body.parser),
                             _loadParser(body.parser, filePath, name)),
      plugins |-> IF "plugins" \notin DOMAIN body
                  THEN PluginsLoaded(<<>>, {})
                  ELSE _loadPlugins(body.plugins, filePath, name) ]

\* The module resolutions attempted while loading them.
attempts(deps) == deps.parser.log \cup deps.plugins.log

\* A variant whose element does not keep the parser that was loaded.
ownElementWithoutParser(body, deps, filePath, name) ==
    [ name |-> name,
      filePath |-> filePath,
      criteria |-> Null,
      env |-> Get(body, "env", UndefObj),
      globals |-> Get(body, "globals", UndefObj),
      parser |-> UndefObj,
      parserOptions |-> Get(body, "parserOptions", UndefObj),
      plugins |-> IF "plugins" \notin DOMAIN body THEN UndefObj
                  ELSE PluginsMap(deps.plugins.map),
      processor |-> Get(body, "processor", UndefStr),
      root |-> Get(body, "root", "undefined"),
      rules |-> Get(body, "rules", UndefObj),
      settings |-> Get(body, "settings", UndefObj) ]

\* The element a config body yields for itself.
ownElement(body, deps, filePath, name) ==
    [ name |-> name,
      filePath |-> filePath,
      criteria |-> Null,
      env |-> Get(body, "env", UndefObj),
      globals |-> Get(body, "globals", UndefObj),
      parser |-> deps.parser.dep,
      parserOptions |-> Get(body, "parserOptions", UndefObj),
      plugins |-> IF "plugins" \notin DOMAIN body THEN UndefObj
                  ELSE PluginsMap(deps.plugins.map),
      processor |-> Get(body, "processor", UndefStr),
      root |-> Get(body, "root", "undefined"),
      rules |-> Get(body, "rules", UndefObj),
      settings |-> Get(body, "settings", UndefObj) ]

\* _normalizeObjectConfigDataBody once `extends` has been flattened: what
\* the generator yields after it, in order.
\* A variant that yields the elements of the file extension processors
\* after the element of the config itself.
yieldBodyThenProcessors(extended, deps, body, filePath, name, d) ==
    IF ~extended.ok THEN extended
    ELSE IF ~deps.plugins.ok
    THEN Raised(deps.plugins.err, FALSE, extended.log \cup attempts(deps))
    ELSE After(extended.elems \o << ownElement(body, deps, filePath, name) >>,
               extended.log \cup attempts(deps),
            ThenYield(
                _takeFileExtensionProcessors(
                    extensionProcessorsOf(deps.plugins.map, 1), 1,
                    filePath, name, d),
                flattenOverrides(Get(body, "overrides", <<>>), 1,
                                 filePath, name, d)))

yieldBody(extended, deps, body, filePath, name, d) ==
    IF ~extended.ok THEN extended
    ELSE IF ~deps.plugins.ok
    THEN Raised(deps.plugins.err, FALSE, extended.log \cup attempts(deps))
    ELSE After(extended.elems, extended.log \cup attempts(deps),
            ThenYield(
                _takeFileExtensionProcessors(
                    extensionProcessorsOf(deps.plugins.map, 1), 1,
                    filePath, name, d),
                After(<< ownElement(body, deps, filePath, name) >>, {},
                      flattenOverrides(Get(body, "overrides", <<>>), 1,
                                       filePath, name, d))))

_normalizeObjectConfigDataBody(body, filePath, name, d) ==
    yieldBody(
        flattenExtends(
            SelectSeq(normalizePatterns(Get(body, "extends", UndefObj)),
                      LAMBDA e : e # <<>>),
            1, filePath, name, d),
        loadDependencies(body, filePath, name),
        body, filePath, name, d)

\* A variant in which every _loadExtends an error passes on its way out
\* adds its own "Referenced from" line.
referencedFromAtEveryLevel(r, importerPath, importerName) ==
    IF ~r.ok
    THEN [ r EXCEPT !.err.message =
            @ \o <<"\nReferenced from: ">>
              \o (IF importerPath = <<>> THEN importerName
                  ELSE importerPath) ]
    ELSE r

\* The catch block of _loadExtends: an error thrown inside the try block
\* gets the "Referenced from" line.
referencedFrom(r, importerPath, importerName) ==
    IF ~r.ok /\ r.sync
    THEN [ r EXCEPT !.err.message =
            @ \o <<"\nReferenced from: ">>
              \o (IF importerPath = <<>> THEN importerName
                  ELSE importerPath) ]
    ELSE r

_loadExtends(extendName, importerPath, importerName, d) ==
    referencedFrom(
        IF d >= MaxDepth THEN Raised(RangeError, FALSE, {})
        ELSE IF startsWith(extendName, <<"eslint", ":">>)
        THEN _loadExtendedBuiltInConfig(extendName, importerName, d)
        ELSE IF startsWith(extendName, <<"plugin", ":">>)
        THEN _loadExtendedPluginConfig(extendName, importerPath,
                                       importerName, d)
        ELSE _loadExtendedShareableConfig(extendName, importerPath,
                                          importerName, d),
        importerPath, importerName)

\* A variant that takes every `eslint:` entry but eslint:recommended for
\* eslint:all.
_loadExtendedBuiltInConfigLenient(extendName, importerName, d) ==
    _loadConfigData(
        IF extendName = <<"eslint", ":", "recommended">>
        THEN eslintRecommendedPath ELSE eslintAllPath,
        importerName \o <<" » ">> \o extendName, d + 1)

_loadExtendedBuiltInConfig(extendName, importerName, d) ==
    IF extendName \in { <<"eslint", ":", "recommended">>,
                        <<"eslint", ":", "all">> }
    THEN _loadConfigData(
            IF extendName = <<"eslint", ":", "recommended">>
            THEN eslintRecommendedPath ELSE eslintAllPath,
            importerName \o <<" » ">> \o extendName, d + 1)
    ELSE Raised(configMissingError(extendName), TRUE, {})

\* A variant that yields nothing for a plugin config that cannot be had
\* instead of throwing.
normalizePluginConfigOrNothing(plugin, log, extendName, configName, importerName, d) ==
    LET configs == IF plugin.definition = UndefObj THEN EmptyObj
                   ELSE Get(plugin.definition, "configs", EmptyObj)
    IN  IF configName \in DOMAIN configs
        THEN After(<<>>, log,
                   _normalizeConfigData(
                        configs[configName], plugin.filePath,
                        importerName \o <<" » ", "plugin", ":">> \o plugin.id
                            \o <<"/">> \o configName,
                        d + 1))
        ELSE Yielded(<<>>, log)

\* The config named configName of a loaded plugin, normalized; or the error
\* thrown when the plugin has no such config.
normalizePluginConfig(plugin, log, extendName, configName, importerName, d) ==
    LET configs == IF plugin.definition = UndefObj THEN EmptyObj
                   ELSE Get(plugin.definition, "configs", EmptyObj)
    IN  IF configName \in DOMAIN configs
        THEN After(<<>>, log,
                   _normalizeConfigData(
                        configs[configName], plugin.filePath,
                        importerName \o <<" » ", "plugin", ":">> \o plugin.id
                            \o <<"/">> \o configName,
                        d + 1))
        ELSE Raised(IF plugin.error # NoError THEN plugin.error
                    ELSE configMissingError(extendName),
                    TRUE, log)

loadedPluginConfig(p, extendName, configName, importerName, d) ==
    normalizePluginConfig(p.dep, p.log, extendName, configName,
                          importerName, d)

\* _loadExtendedPluginConfig once the name is split at its last slash.
loadPluginConfigNamed(pluginName, configName, extendName, importerPath, importerName, d) ==
    IF isFilePath(pluginName)
    THEN Raised(Error("", <<"'extends' cannot use a file path for plugins.">>, ""),
                TRUE, {})
    ELSE loadedPluginConfig(
            AtSite(Site("extends", 0, extendName),
                   _loadPlugin(pluginName, importerPath, importerName)),
            extendName, configName, importerName, d)

loadPluginConfigSplitAt(slashIndex, extendName, importerPath, importerName, d) ==
    loadPluginConfigNamed(slice(extendName, 2, slashIndex),
                          slice(extendName, slashIndex + 1, Len(extendName)),
                          extendName, importerPath, importerName, d)

_loadExtendedPluginConfig(extendName, importerPath, importerName, d) ==
    loadPluginConfigSplitAt(lastIndexOf(extendName, "/"), extendName,
                            importerPath, importerName, d)

\* The catch block of _loadExtendedShareableConfig: MODULE_NOT_FOUND becomes
\* the missing-config error, any other error is thrown again.
missingWhenNotFound(r, extendName, log) ==
    IF ~r.ok /\ r.sync /\ r.err.code = "MODULE_NOT_FOUND"
    THEN Raised(configMissingError(extendName), TRUE, log \cup r.log)
    ELSE After(<<>>, log, r)

\* _loadExtendedShareableConfig once the request has been resolved.
loadShareableAt(filePath, request, relativeTo, extendName, importerName, d) ==
    IF filePath = <<>>
    THEN Raised(configMissingError(extendName), TRUE,
                { Attempt(request, relativeTo) })
    ELSE missingWhenNotFound(
            _loadConfigData(filePath,
                            importerName \o <<" » ">> \o request, d + 1),
            extendName, { Attempt(request, relativeTo) })

loadShareableRequest(request, relativeTo, extendName, importerName, d) ==
    loadShareableAt(ModuleResolverResolve(request, relativeTo), request,
                    relativeTo, extendName, importerName, d)

_loadExtendedShareableConfig(extendName, importerPath, importerName, d) ==
    loadShareableRequest(
        IF isFilePath(extendName) THEN extendName
        ELSE IF startsWith(extendName, <<".">>)
        THEN <<".", "/">> \o extendName
        ELSE normalizePackageName(extendName, EslintConfigPrefix),
        IF importerPath = <<>> THEN pathJoin(Cwd, <<".", "eslintrc">>)
        ELSE importerPath,
        extendName, importerName, d)

\* ------------------------------------------------------------------------
\* ConfigArray
\* ------------------------------------------------------------------------

\* configArray.root: whether the sequence's first element declares
\* root: true.
ConfigArrayRoot(elements) ==
    Len(elements) > 0 /\ elements[1].root = "true"

\* What a call on the factory gives: the config array it returned, or the
\* error it threw.  `inherited` counts the elements taken from the parent.
\* `log` holds the module resolutions attempted and `created` the
\* dependencies made during the call.
Returned(elems, inherited, log) ==
    [ threw |-> FALSE, elems |-> elems, inherited |-> inherited,
      err |-> NoError,
      log |-> { e \in log : "request" \in DOMAIN e },
      created |-> { e \in log : "created" \in DOMAIN e } ]
Threw(err, log) ==
    [ threw |-> TRUE, elems |-> <<>>, inherited |-> 0, err |-> err,
      log |-> { e \in log : "request" \in DOMAIN e },
      created |-> { e \in log : "created" \in DOMAIN e } ]

NoElements == [ none |-> TRUE ]

\* A variant that prepends the parent whatever the first element declares.
createConfigArrayUnderParent(elements, hasParent, parentConfigArray) ==
    IF elements = NoElements
    THEN IF hasParent
         THEN Returned(parentConfigArray, Len(parentConfigArray), {})
         ELSE Returned(<<>>, 0, {})
    ELSE IF ~elements.ok THEN Threw(elements.err, elements.log)
    ELSE IF hasParent
    THEN Returned(parentConfigArray \o elements.elems,
                  Len(parentConfigArray), elements.log)
    ELSE Returned(elements.elems, 0, elements.log)

\* createConfigArray(elements, parentConfigArray); a null argument is
\* NoElements / <<>>.
createConfigArray(elements, hasParent, parentConfigArray) ==
    IF elements = NoElements
    THEN IF hasParent
         THEN Returned(parentConfigArray, Len(parentConfigArray), {})
         ELSE Returned(<<>>, 0, {})
    ELSE IF ~elements.ok THEN Threw(elements.err, elements.log)
    ELSE IF hasParent /\ ~ConfigArrayRoot(elements.elems)
    THEN Returned(parentConfigArray \o elements.elems,
                  Len(parentConfigArray), elements.log)
    ELSE Returned(elements.elems, 0, elements.log)

\* A variant in which a package.json without the eslintConfig field is not
\* a soft miss.
SoftCodesOfMissingFiles == { "ENOENT", "MODULE_NOT_FOUND" }

SoftCodes == { "ENOENT", "MODULE_NOT_FOUND", "ESLINT_CONFIG_FIELD_NOT_FOUND" }

\* One turn of the loop of _loadConfigDataOnDirectory: the config file that
\* was read is normalized; a soft miss, and data that is not truthy, move on
\* to the next file name.
RECURSIVE _loadConfigDataOnDirectoryFrom(_, _, _)
normalizeOrNext(r, filePath, i, directoryPath, name) ==
    IF (~r.ok /\ r.err.code \in SoftCodes) \/ (r.ok /\ r.data = Null)
    THEN _loadConfigDataOnDirectoryFrom(i + 1, directoryPath, name)
    ELSE normalizeLoaded(r, filePath, name, 0)

loadCandidate(filePath, i, directoryPath, name) ==
    normalizeOrNext(loadConfigFile(filePath), filePath, i, directoryPath,
                    name)

_loadConfigDataOnDirectoryFrom(i, directoryPath, name) ==
    IF i > Len(configFilenames) THEN NoElements
    ELSE loadCandidate(pathJoin(directoryPath, configFilenames[i]), i,
                       directoryPath, name)

_loadConfigDataOnDirectory(directoryPath, name) ==
    _loadConfigDataOnDirectoryFrom(1, directoryPath, name)

\* ------------------------------------------------------------------------
\* Inputs
\* ------------------------------------------------------------------------

\* The parent config arrays passed in options.parent: none, or the array
\* loaded from the config file of the directory above the project.
ParentPath == <<"/", ".", "eslintrc", ".", "json">>
ParentArray(hasParent) ==
    IF hasParent
    THEN _normalizeConfigData(ConfigData("ov2"), ParentPath, UndefStr, 0).elems
    ELSE <<>>

\* The elements of that array, as ParentArray(TRUE) gives them: the element
\* of the config file and one element for each of its two override entries.
ParentElement(name, rules, criteria) ==
    [ name |-> name, filePath |-> ParentPath, criteria |-> criteria,
      env |-> UndefObj, globals |-> UndefObj, parser |-> UndefObj,
      parserOptions |-> UndefObj, plugins |-> UndefObj,
      processor |-> UndefStr, root |-> "undefined", rules |-> rules,
      settings |-> UndefObj ]
ParentElements ==
    LET name == <<".", ".", "/", ".", "eslintrc", ".", "json">>
    IN  << ParentElement(name, [regular |-> Sev(1)], Null),
           ParentElement(
                name \o <<"#overrides[", "0", "]">>, [override |-> Sev(1)],
                [ patterns |-> << [ includes |-> << <<"*", ".", "xxx">> >>,
                                    excludes |-> <<>> ] >>,
                  basePath |-> <<"/">> ]),
           ParentElement(
                name \o <<"#overrides[", "1", "]">>, [override |-> Sev(2)],
                [ patterns |-> << [ includes |-> << <<"*", ".", "yyy">>,
                                                    <<"*", ".", "xxx">> >>,
                                    excludes |-> << <<"lib", "/", "*">> >> ] >>,
                  basePath |-> <<"/">> ]) >>

CreateOptions ==
    { [ filePath |-> UndefStr, name |-> UndefStr ],
      [ filePath |-> <<"sub", "/", "a", ".", "js">>, name |-> UndefStr ],
      [ filePath |-> UndefStr, name |-> <<"cli">> ] }

LoadFilePaths ==
    { <<".", "eslintrc", ".", "json">>, SubEntryPath, ConfigAPath,
      <<"missing", ".", "json">>, Candidate(<<"pkgonly">>, 6),
      Candidate(<<"multi">>, 6), Candidate(<<"multi">>, 2) }

LoadDirectories ==
    { Cwd, <<"sub">>, <<"/", "elsewhere">>, <<"multi">>, <<"nulled">>,
      <<"pkgonly">> }

WritablePaths ==
    { EntryPath, ConfigAPath, ConfigBPath, PluginPPath, ParserXPath,
      LocalEspreePath, eslintAllPath, Candidate(MultiDir, 1), Candidate(MultiDir, 2),
      Candidate(MultiDir, 6), Candidate(NulledDir, 4) }

\* The names plugins are added under: the package name of the plugin p and
\* its shorthand; the package is also in node_modules.
PoolPluginNames == { <<"p">>, <<"eslint", "-", "plugin", "-", "p">> }
PoolPlugin == [ rules |-> [pooledRule |-> TRUE] ]
\* The plugin objects added to the pool of the engine.
PoolPlugins == { PoolPlugin, [ rules |-> [otherRule |-> TRUE] ] }
\* The directories of the files the engine lints.
LintedDirectories == { Cwd, <<"sub">>, <<"multi">> }

Call(op, data, filePath, name, hasParent) ==
    [ op |-> op, data |-> data, filePath |-> filePath, name |-> name,
      hasParent |-> hasParent ]

\* ------------------------------------------------------------------------
\* ConfigArray.extractConfig
\* ------------------------------------------------------------------------

\* The files configs are extracted for.
ExtractPaths ==
    { pathJoin(Cwd, <<"a", ".", "xxx">>),
      pathJoin(Cwd, <<"lib", "/", "b", ".", "yyy">>),
      pathJoin(SubDir, <<"lib", "/", "a", ".", "xxx">>) }

\* The positions of the elements that apply to filePath, in the order of
\* the array.
RECURSIVE matchedIndices(_, _, _)
matchedIndices(elements, filePath, i) ==
    IF i > Len(elements) THEN <<>>
    ELSE IF \/ elements[i].criteria = Null
            \/ OverrideTesterTest(elements[i].criteria, filePath)
    THEN << i >> \o matchedIndices(elements, filePath, i + 1)
    ELSE matchedIndices(elements, filePath, i + 1)

\* The array form [severity, ...options] of the value of a rule.
ruleArrayForm(value) ==
    IF value.t = "arr" THEN value.v ELSE << value.v[1] >>

\* A variant that keeps the value of the first element setting a rule.
mergeRulesKeepingFirst(target, source) ==
    IF source = UndefObj THEN target
    ELSE [ ruleId \in DOMAIN target \cup DOMAIN source |->
            IF ruleId \in DOMAIN target THEN target[ruleId]
            ELSE ruleArrayForm(source[ruleId]) ]

\* The rules of target with those of source assigned over them.
mergeRules(target, source) ==
    IF source = UndefObj THEN target
    ELSE [ ruleId \in DOMAIN target \cup DOMAIN source |->
            IF ruleId \in DOMAIN source THEN ruleArrayForm(source[ruleId])
            ELSE target[ruleId] ]

\* The shallow merge of an object-valued field.
mergeObjects(target, source) ==
    IF source = UndefObj THEN target
    ELSE [ key \in DOMAIN target \cup DOMAIN source |->
            IF key \in DOMAIN source THEN source[key] ELSE target[key] ]

\* The plugins of target with those of an element put over them, by id.
mergePlugins(target, plugins) ==
    IF plugins = UndefObj THEN target
    ELSE [ id \in DOMAIN target \cup { plugins.map[j].id :
                                        j \in 1..Len(plugins.map) } |->
            IF \E j \in 1..Len(plugins.map) : plugins.map[j].id = id
            THEN plugins.map[CHOOSE j \in 1..Len(plugins.map) :
                                plugins.map[j].id = id]
            ELSE target[id] ]

\* The config before any element has been folded into it.
EmptyConfig ==
    [ env |-> EmptyObj, globals |-> EmptyObj, parser |-> UndefObj,
      parserOptions |-> EmptyObj, plugins |-> EmptyObj,
      processor |-> UndefStr, rules |-> EmptyObj, settings |-> EmptyObj ]

\* One step of the fold: the element assigned over what came before it.
foldElement(target, element) ==
    [ env |-> mergeObjects(target.env, element.env),
      globals |-> mergeObjects(target.globals, element.globals),
      parser |-> IF element.parser = UndefObj THEN target.parser
                 ELSE element.parser,
      parserOptions |-> mergeObjects(target.parserOptions,
                                     element.parserOptions),
      plugins |-> mergePlugins(target.plugins, element.plugins),
      processor |-> IF element.processor = UndefStr THEN target.processor
                    ELSE element.processor,
      rules |-> mergeRules(target.rules, element.rules),
      settings |-> mergeObjects(target.settings, element.settings) ]

\* The fold of the elements at indices, from the position k on.
RECURSIVE createConfig(_, _, _, _)
createConfig(elements, indices, k, target) ==
    IF k > Len(indices) THEN target
    ELSE createConfig(elements, indices, k + 1,
                      foldElement(target, elements[indices[k]]))

\* configArray.extractConfig(filePath)
extractConfigOf(elements, filePath) ==
    createConfig(elements, matchedIndices(elements, filePath, 1), 1,
                 EmptyConfig)

\* ------------------------------------------------------------------------
\* The resolution, one config source at a time
\* ------------------------------------------------------------------------

\* The result of a call that has not come back yet, and of one that has:
\* whether it threw.
Pending == [ pending |-> TRUE ]
Ended(failed) == [ pending |-> FALSE, threw |-> failed ]

\* What is left to do for a config source: a config given as data, a file
\* to load, a directory to search from the index-th file name on, an entry
\* of `extends`, the parser and the plugins, an entry of `overrides`.
Item(kind, name, body, index) ==
    [ kind |-> kind, name |-> name, body |-> body, index |-> index ]

\* The loops of _normalizeObjectConfigDataBody over a config body.
WorkOf(body) ==
    LET extendList == SelectSeq(normalizePatterns(Get(body, "extends", UndefObj)),
                                LAMBDA e : e # <<>>)
        overrideList == Get(body, "overrides", <<>>)
    IN  [ i \in 1..Len(extendList) |->
            Item("extends", extendList[i], EmptyObj, i) ]
        \o << Item("dependencies", <<>>, body, 0) >>
        \o [ i \in 1..Len(overrideList) |->
            Item("overrides", <<>>, overrideList[i], i) ]

\* A generator that is being iterated: what it still has to do, the file
\* and the name of its config, and how deep in `extends` it is.
Frame(work, filePath, name, d) ==
    [ work |-> work, filePath |-> filePath, name |-> name, d |-> d ]

\* What an entry of `extends`, a file or a directory gave: the config data
\* with its file and its name, nothing, or a failure.
Target(data, filePath, name) ==
    [ ok |-> TRUE, none |-> FALSE, data |-> data, filePath |-> filePath,
      name |-> name ]
NoTarget == [ ok |-> TRUE, none |-> TRUE, data |-> EmptyObj, filePath |-> <<>>,
              name |-> <<>> ]
Failure == [ ok |-> FALSE, none |-> FALSE, data |-> EmptyObj,
             filePath |-> <<>>, name |-> <<>> ]

\* loadConfigFile for _loadConfigData.
targetOfRead(r, filePath, name) ==
    IF r.ok THEN Target(r.data, filePath, name) ELSE Failure

targetFile(filePath, name) ==
    Once(LAMBDA r : targetOfRead(r, filePath, name), loadConfigFile(filePath))

\* _loadExtendedPluginConfig up to the call of _normalizeConfigData.
targetOfPlugin(plugin, configName, importerName) ==
    LET configs == IF plugin.definition = UndefObj THEN EmptyObj
                   ELSE Get(plugin.definition, "configs", EmptyObj)
    IN  IF configName \in DOMAIN configs
        THEN Target(configs[configName], plugin.filePath,
                    importerName \o <<" » ", "plugin", ":">> \o plugin.id
                        \o <<"/">> \o configName)
        ELSE Failure

targetPluginAt(slashIndex, extendName, importerPath, importerName) ==
    IF isFilePath(slice(extendName, 2, slashIndex)) THEN Failure
    ELSE Once(LAMBDA pluginName :
                Once(LAMBDA plugin :
                        targetOfPlugin(plugin.dep,
                                       slice(extendName, slashIndex + 1,
                                             Len(extendName)),
                                       importerName),
                     _loadPlugin(pluginName, importerPath, importerName)),
              slice(extendName, 2, slashIndex))

\* _loadExtendedShareableConfig up to the call of _loadConfigData.
targetShareableAt(filePath, request, importerName) ==
    IF filePath = <<>> THEN Failure
    ELSE targetFile(filePath, importerName \o <<" » ">> \o request)

targetShareableFrom(request, relativeTo, importerName) ==
    Once(LAMBDA filePath : targetShareableAt(filePath, request, importerName),
         ModuleResolverResolve(request, relativeTo))

targetShareable(request, relativeTo, importerName) ==
    Once(LAMBDA r : targetShareableFrom(r, relativeTo, importerName), request)

\* The config an entry of `extends` stands for (_loadExtends).
targetOfExtends(extendName, importerPath, importerName) ==
    IF startsWith(extendName, <<"eslint", ":">>)
    THEN IF extendName = <<"eslint", ":", "recommended">>
         THEN targetFile(eslintRecommendedPath,
                         importerName \o <<" » ">> \o extendName)
         ELSE IF extendName = <<"eslint", ":", "all">>
         THEN targetFile(eslintAllPath,
                         importerName \o <<" » ">> \o extendName)
         ELSE Failure
    ELSE IF startsWith(extendName, <<"plugin", ":">>)
    THEN targetPluginAt(lastIndexOf(extendName, "/"), extendName,
                        importerPath, importerName)
    ELSE targetShareable(
            IF isFilePath(extendName) THEN extendName
            ELSE IF startsWith(extendName, <<".">>)
            THEN <<".", "/">> \o extendName
            ELSE normalizePackageName(extendName, EslintConfigPrefix),
            IF importerPath = <<>> THEN pathJoin(Cwd, <<".", "eslintrc">>)
            ELSE importerPath,
            importerName)

\* One turn of the loop of _loadConfigDataOnDirectory: the config of the
\* file name, nothing when the file is missed softly or holds no data.
targetOfCandidate(r, filePath) ==
    IF (~r.ok /\ r.err.code \in SoftCodes) \/ (r.ok /\ r.data = Null)
    THEN NoTarget
    ELSE targetOfRead(r, filePath, UndefStr)

\* What the item on top of the work of frame f stands for.
targetOf(item, f) ==
    IF item.kind = "data" THEN Target(item.body, f.filePath, f.name)
    ELSE IF item.kind = "file" THEN targetFile(item.name, UndefStr)
    ELSE IF item.kind = "directory"
    THEN Once(LAMBDA filePath :
                Once(LAMBDA r : targetOfCandidate(r, filePath),
                     loadConfigFile(filePath)),
              pathJoin(item.name, configFilenames[item.index]))
    ELSE targetOfExtends(item.name, f.filePath, f.name)

\* The call stack has no room for another generator.
stackExhausted(d) == d >= MaxDepth

\* A variant in which a config that is already being flattened takes the
\* place of its own generator instead of running inside it.
enteredInPlace(frame, stack) ==
    IF \E k \in 1..Len(stack) :
            stack[k].filePath # <<>> /\ stack[k].filePath = frame.filePath
    THEN LET k == CHOOSE j \in 1..Len(stack) :
                    /\ stack[j].filePath = frame.filePath
                    /\ \A i \in 1..Len(stack) :
                        stack[i].filePath = frame.filePath => j <= i
         IN  << [ frame EXCEPT !.d = stack[k].d, !.name = stack[k].name ] >>
                \o SubSeq(stack, k + 1, Len(stack))
    ELSE << frame >> \o stack

\* yield* of a generator: it runs inside the one that yields it.
entered(frame, stack) == << frame >> \o stack

\* The stack after the item on top of the work of the innermost generator
\* has been taken; the empty stack when the error it threw ends the call.
\* The second component tells whether an error ended it.
Advance(stack, failed) == [ stack |-> stack, failed |-> failed ]

afterTarget(t, item, f, rest) ==
    IF ~t.ok THEN Advance(<<>>, TRUE)
    ELSE IF t.none
    THEN Advance(<< [ f EXCEPT !.work =
                        << [ item EXCEPT !.index = @ + 1 ] >> \o Tail(@) ] >>
                    \o rest, FALSE)
    ELSE IF validateConfigSchema(t.data, t.name) # NoError
    THEN Advance(<<>>, TRUE)
    ELSE Advance(entered(Frame(WorkOf(t.data), t.filePath, t.name,
                               IF item.kind = "extends" THEN f.d + 1
                               ELSE f.d),
                         << [ f EXCEPT !.work = Tail(@) ] >> \o rest),
                 FALSE)

afterItem(item, f, rest) ==
    IF item.kind = "dependencies"
    THEN IF \E i \in 1..Len(Get(item.body, "plugins", <<>>)) :
                isFilePath(item.body.plugins[i])
         THEN Advance(<<>>, TRUE)
         ELSE Advance(<< [ f EXCEPT !.work = Tail(@) ] >> \o rest, FALSE)
    ELSE IF item.kind = "overrides"
    THEN Advance(entered(Frame(WorkOf(item.body), f.filePath,
                               f.name \o <<"#overrides[",
                                           ToString(item.index - 1), "]">>,
                               f.d),
                         << [ f EXCEPT !.work = Tail(@) ] >> \o rest),
                 FALSE)
    ELSE IF item.kind = "extends" /\ stackExhausted(f.d)
    THEN Advance(<<>>, TRUE)
    ELSE IF item.kind = "directory" /\ item.index > Len(configFilenames)
    THEN Advance(<< [ f EXCEPT !.work = Tail(@) ] >> \o rest, FALSE)
    ELSE Once(LAMBDA t : afterTarget(t, item, f, rest), targetOf(item, f))

advance(stack) ==
    IF Head(stack).work = <<>> THEN Advance(Tail(stack), FALSE)
    ELSE afterItem(Head(Head(stack).work), Head(stack), Tail(stack))

\* What the call c gives once it has run to its end.
Outcome(c) ==
    createConfigArray(
        IF c.op = "create"
        THEN (IF c.data = "null" THEN NoElements
              ELSE _normalizeConfigData(ConfigData(c.data), c.filePath,
                                        c.name, 0))
        ELSE IF c.op = "loadFile"
        THEN _loadConfigData(pathResolve(Cwd, c.filePath), UndefStr, 0)
        ELSE _loadConfigDataOnDirectory(pathResolve(Cwd, c.filePath),
                                        UndefStr),
        FALSE, <<>>)

\* ------------------------------------------------------------------------
\* Operations
\* ------------------------------------------------------------------------

\* No call has been made since the factory's surroundings last changed.
Idle == Call("none", "null", UndefStr, UndefStr, FALSE)
NoResult == Returned(<<>>, 0, {})
NoConfig == [ none |-> TRUE ]
NoPlugin == [ none |-> TRUE ]
NoReport == [ none |-> TRUE ]

Init ==
    /\ fs = InitialFs
    /\ writes = 0
    /\ additionalParserPool = (<<"poolparser">> :> [ name |-> "poolparser" ])
    /\ additionalPluginPool = EmptyObj
    /\ parent = ParentElements
    /\ call = Idle
    /\ result = NoResult
    /\ config = NoConfig
    /\ cache = EmptyObj
    /\ added = NoPlugin
    /\ report = NoReport
    /\ frames = <<>>

\* factory.create(configData, { filePath, name, parent })
create(data, options, hasParent) ==
    /\ call = Idle
    /\ call' = Call("create", data, options.filePath, options.name, hasParent)
    /\ result' = createConfigArray(
                    IF data = "null" THEN NoElements
                    ELSE _normalizeConfigData(ConfigData(data),
                                              options.filePath, options.name, 0),
                    hasParent, parent)
    /\ UNCHANGED <<fs, writes, additionalParserPool, additionalPluginPool,
                   parent, config, engine, frames>>

\* factory.loadFile(filePath, { name, parent })
loadFile(filePath, hasParent) ==
    /\ call = Idle
    /\ call' = Call("loadFile", "null", filePath, UndefStr, hasParent)
    /\ result' = createConfigArray(
                    _loadConfigData(pathResolve(Cwd, filePath), UndefStr, 0),
                    hasParent, parent)
    /\ UNCHANGED <<fs, writes, additionalParserPool, additionalPluginPool,
                   parent, config, engine, frames>>

\* factory.loadOnDirectory(directoryPath, { name, parent })
loadOnDirectory(directoryPath, hasParent) ==
    /\ call = Idle
    /\ call' = Call("loadOnDirectory", "null", directoryPath, UndefStr,
                    hasParent)
    /\ result' = createConfigArray(
                    _loadConfigDataOnDirectory(pathResolve(Cwd, directoryPath),
                                               UndefStr),
                    hasParent, parent)
    /\ UNCHANGED <<fs, writes, additionalParserPool, additionalPluginPool,
                   parent, config, engine, frames>>

\* A file is written, created or deleted between two calls; the result of
\* the call before it has been consumed.
writeFile(p, content) ==
    /\ writes < MaxWrites
    /\ fs[p] # content
    /\ fs' = [ fs EXCEPT ![p] = content ]
    /\ writes' = writes + 1
    /\ call' = Idle
    /\ result' = NoResult
    /\ config' = NoConfig
    /\ report' = NoReport
    /\ UNCHANGED <<additionalParserPool, additionalPluginPool, parent, cache,
                   added, frames>>

\* A variant that leaves the cache of the file enumerator as it is.
addPluginKeepingCache(name, pluginObject) ==
    /\ \/ poolHas(additionalPluginPool, name)
       \/ Cardinality(DOMAIN additionalPluginPool) < MaxPlugins
    /\ added # [ name |-> name, plugin |-> pluginObject ]
    /\ additionalPluginPool' = (name :> pluginObject) @@ additionalPluginPool
    /\ added' = [ name |-> name, plugin |-> pluginObject ]
    /\ call' = Idle
    /\ result' = NoResult
    /\ config' = NoConfig
    /\ report' = NoReport
    /\ UNCHANGED <<fs, writes, additionalParserPool, parent, cache, frames>>

\* CLIEngine.addPlugin(name, pluginObject): additionalPluginPool.set and
\* fileEnumerator.clearCache.  Adding again what was added last changes
\* nothing that the engine keeps.
addPlugin(name, pluginObject) ==
    /\ \/ poolHas(additionalPluginPool, name)
       \/ Cardinality(DOMAIN additionalPluginPool) < MaxPlugins
    /\ added # [ name |-> name, plugin |-> pluginObject ]
    /\ additionalPluginPool' = (name :> pluginObject) @@ additionalPluginPool
    /\ added' = [ name |-> name, plugin |-> pluginObject ]
    /\ cache' = EmptyObj
    /\ call' = Idle
    /\ result' = NoResult
    /\ config' = NoConfig
    /\ report' = NoReport
    /\ UNCHANGED <<fs, writes, additionalParserPool, parent, frames>>

\* fileEnumerator.getConfigArrayForFile for a file of the directory: the
\* array kept for the directory, or the one the factory loads on it, which
\* is kept from then on.
getConfigArrayForFile(directoryPath) ==
    /\ call' = Call("getConfigArrayForFile", "null", directoryPath, UndefStr,
                    FALSE)
    /\ IF directoryPath \in DOMAIN cache
       THEN /\ result' = Returned(cache[directoryPath], 0, {})
            /\ UNCHANGED cache
       ELSE /\ result' = createConfigArray(
                            _loadConfigDataOnDirectory(
                                pathResolve(Cwd, directoryPath), UndefStr),
                            FALSE, <<>>)
            /\ cache' = IF result'.threw THEN cache
                        ELSE (directoryPath :> result'.elems) @@ cache
    /\ config' = NoConfig
    /\ report' = NoReport
    /\ UNCHANGED <<fs, writes, additionalParserPool, additionalPluginPool,
                   parent, added, frames>>

\* configArray.extractConfig(filePath) on the array the last call returned
extractConfig(filePath) ==
    /\ call # Idle
    /\ ~result.threw
    /\ config' = [ filePath |-> filePath,
                   value |-> extractConfigOf(result.elems, filePath) ]
    /\ UNCHANGED <<fs, writes, additionalParserPool, additionalPluginPool,
                   parent, call, result, engine, frames>>

Next ==
    \/ \E data \in ConfigIds \cup {"null"}, options \in CreateOptions,
          hasParent \in BOOLEAN :
            /\ hasParent => options.name = UndefStr
            /\ create(data, options, hasParent)
    \/ \E filePath \in LoadFilePaths, hasParent \in BOOLEAN :
            loadFile(filePath, hasParent)
    \/ \E directoryPath \in LoadDirectories, hasParent \in BOOLEAN :
            loadOnDirectory(directoryPath, hasParent)
    \/ \E p \in WritablePaths : \E content \in WritableContents(p) :
            writeFile(p, content)
    \/ \E name \in PoolPluginNames : addPlugin(name, PoolPlugin)

Spec == Init /\ [][Next]_vars

\* The factory together with the extraction of configs from what it returns.
NextExtract ==
    \/ Next
    \/ \E filePath \in ExtractPaths : extractConfig(filePath)

SpecExtract == Init /\ [][NextExtract]_vars

\* A file to lint: the directory whose config array the enumerator gives
\* for it, and its path.
LintFile(directoryPath, base) ==
    [ dir |-> directoryPath,
      filePath |-> pathJoin(pathResolve(Cwd, directoryPath), base) ]

LintFiles ==
    { LintFile(Cwd, <<"a", ".", "xxx">>),
      LintFile(Cwd, <<"lib", "/", "b", ".", "yyy">>),
      LintFile(<<"sub">>, <<"a", ".", "xxx">>),
      LintFile(<<"multi">>, <<"a", ".", "js">>) }

\* The runs of executeOnFiles: the files the enumerator iterates, in order.
LintRuns ==
    { << f >> : f \in LintFiles }
    \cup { run \in LintFiles \X LintFiles : run[1] # run[2] }

\* The rule definitions of the linter (ruleMap): whether meta.deprecated is
\* set.
ruleMap ==
    [ semi |-> [ deprecated |-> TRUE ],
      eqeqeq |-> [ deprecated |-> FALSE ],
      regular |-> [ deprecated |-> TRUE ],
      override |-> [ deprecated |-> FALSE ],
      recommendedRule |-> [ deprecated |-> FALSE ],
      otherRule |-> [ deprecated |-> TRUE ] ]

\* ConfigOps.getRuleSeverity(ruleConfig) is not 0.
isUsed(ruleConfig) == ruleConfig[1] # 0

\* rule && rule.meta && rule.meta.deprecated, for the rule getRule gives.
isDeprecated(ruleId) ==
    ruleId \in DOMAIN ruleMap /\ ruleMap[ruleId].deprecated

\* The members of a set one after the other.
RECURSIVE SetToSeq(_)
SetToSeq(S) ==
    IF S = {} THEN <<>>
    ELSE LET x == CHOOSE y \in S : TRUE
         IN  << x >> \o SetToSeq(S \ { x })

\* The rule ids the loops of iterateRuleDeprecationWarnings yield from the
\* k-th config on: a rule id met before is skipped, one met for the first
\* time is recorded as processed and then yielded when the config at hand
\* uses it and the rule is deprecated.
RECURSIVE iterateRuleDeprecationWarnings(_, _, _)
iterateRuleDeprecationWarnings(configs, k, processedRuleIds) ==
    IF k > Len(configs) THEN <<>>
    ELSE SetToSeq({ ruleId \in DOMAIN configs[k].rules \ processedRuleIds :
                        /\ isUsed(configs[k].rules[ruleId])
                        /\ isDeprecated(ruleId) })
         \o iterateRuleDeprecationWarnings(
                configs, k + 1,
                processedRuleIds \cup DOMAIN configs[k].rules)

\* The array the enumerator gives for a directory: the one it keeps, or the
\* one the factory loads.
configArrayOn(directoryPath) ==
    IF directoryPath \in DOMAIN cache
    THEN Returned(cache[directoryPath], 0, {})
    ELSE createConfigArray(
            _loadConfigDataOnDirectory(pathResolve(Cwd, directoryPath),
                                       UndefStr),
            FALSE, <<>>)

\* A sequence without the members that occur earlier in it.
RECURSIVE distinct(_)
distinct(xs) ==
    IF xs = <<>> THEN <<>>
    ELSE LET init == distinct(SubSeq(xs, 1, Len(xs) - 1))
         IN  IF \E i \in 1..Len(init) : init[i] = xs[Len(xs)] THEN init
             ELSE Append(init, xs[Len(xs)])

\* getUsedExtractedConfigs of the array of a directory: the configs
\* extracted from it for the files of the run, each once.
getUsedExtractedConfigs(directoryPath, files) ==
    distinct([ i \in 1..Len(SelectSeq(files,
                                      LAMBDA f : f.dir = directoryPath)) |->
                extractConfigOf(
                    configArrayOn(directoryPath).elems,
                    SelectSeq(files,
                              LAMBDA f : f.dir = directoryPath)[i].filePath) ])

\* [].concat(...usedConfigArrays.map(getUsedExtractedConfigs))
RECURSIVE usedConfigsFrom(_, _, _)
usedConfigsFrom(usedConfigArrays, k, files) ==
    IF k > Len(usedConfigArrays) THEN <<>>
    ELSE getUsedExtractedConfigs(usedConfigArrays[k], files)
         \o usedConfigsFrom(usedConfigArrays, k + 1, files)

\* What a run reports: the configs that were used, in the order they are
\* traversed, and usedDeprecatedRules.
Report(op, files, configs) ==
    [ op |-> op, files |-> files, configs |-> configs,
      usedDeprecatedRules |-> iterateRuleDeprecationWarnings(configs, 1, {}) ]

\* CLIEngine.executeOnFiles: every file is linted with the config array of
\* its directory, then the deprecated rules in use are collected from the
\* arrays in the order they were first used.  A run in which a config
\* fails to load throws and reports nothing.
executeOnFiles(files) ==
    /\ \A i \in 1..Len(files) : ~configArrayOn(files[i].dir).threw
    /\ cache' = [ d \in DOMAIN cache \cup { files[i].dir : i \in 1..Len(files) }
                    |-> configArrayOn(d).elems ]
    /\ report' = Report("executeOnFiles", files,
                        usedConfigsFrom(
                            distinct([ i \in 1..Len(files) |-> files[i].dir ]),
                            1, files))
    /\ call' = Idle
    /\ result' = NoResult
    /\ config' = NoConfig
    /\ UNCHANGED <<fs, writes, additionalParserPool, additionalPluginPool,
                   parent, added, frames>>

\* CLIEngine.executeOnText with a file name: the text is linted with the
\* config array of that file alone.
executeOnText(file) ==
    /\ ~configArrayOn(file.dir).threw
    /\ cache' = [ d \in DOMAIN cache \cup { file.dir } |->
                    configArrayOn(d).elems ]
    /\ report' = Report("executeOnText", << file >>,
                        getUsedExtractedConfigs(file.dir, << file >>))
    /\ call' = Idle
    /\ result' = NoResult
    /\ config' = NoConfig
    /\ UNCHANGED <<fs, writes, additionalParserPool, additionalPluginPool,
                   parent, added, frames>>

\* The engine: configs come from the file enumerator, plugins are added
\* and files change between runs.
NextEngine ==
    \/ \E directoryPath \in LintedDirectories :
            getConfigArrayForFile(directoryPath)
    \/ \E name \in PoolPluginNames, pluginObject \in PoolPlugins :
            addPlugin(name, pluginObject)
    \/ \E p \in WritablePaths : \E content \in WritableContents(p) :
            writeFile(p, content)

SpecEngine == Init /\ [][NextEngine]_vars

\* The engine linting: runs over files and over a text, between which
\* files change.
NextLint ==
    \/ \E files \in LintRuns : executeOnFiles(files)
    \/ \E file \in LintFiles : executeOnText(file)
    \/ \E p \in WritablePaths : \E content \in WritableContents(p) :
            writeFile(p, content)

SpecLint == Init /\ [][NextLint]_vars

\* A call on the factory begins: the generator of its config is about to be
\* iterated.
begin(c, item) ==
    /\ call = Idle
    /\ call' = c
    /\ result' = Pending
    /\ frames' = << Frame(<< item >>,
                          IF c.op = "create" /\ c.filePath # UndefStr
                          THEN pathResolve(Cwd, c.filePath) ELSE <<>>,
                          IF c.name = UndefStr THEN <<>> ELSE c.name, 0) >>
    /\ UNCHANGED <<fs, writes, additionalParserPool, additionalPluginPool,
                   parent, config, engine>>

\* The call goes on by one item: a generator is entered or left, or an
\* error ends the call.  When the stack is empty the call has come back.
resolveStep ==
    /\ result = Pending
    /\ \E a \in { advance(frames) } :
        /\ frames' = a.stack
        /\ result' = IF a.stack = <<>> THEN Ended(a.failed) ELSE Pending
    /\ UNCHANGED <<fs, writes, additionalParserPool, additionalPluginPool,
                   parent, call, config, engine>>

\* The factory with its calls taken one config source at a time; files
\* change between calls only.
NextSteps ==
    \/ \E data \in ConfigIds, options \in CreateOptions :
            begin(Call("create", data, options.filePath, options.name, FALSE),
                  Item("data", <<>>, ConfigData(data), 0))
    \/ \E filePath \in LoadFilePaths :
            begin(Call("loadFile", "null", filePath, UndefStr, FALSE),
                  Item("file", pathResolve(Cwd, filePath), EmptyObj, 0))
    \/ \E directoryPath \in LoadDirectories :
            begin(Call("loadOnDirectory", "null", directoryPath, UndefStr,
                       FALSE),
                  Item("directory", pathResolve(Cwd, directoryPath), EmptyObj,
                       1))
    \/ resolveStep
    \/ \E p \in WritablePaths : \E content \in WritableContents(p) :
            result # Pending /\ writeFile(p, content)

\* The code is synchronous: a call that has begun runs on until it
\* returns or throws.
SpecSteps == Init /\ [][NextSteps]_vars /\ WF_vars(resolveStep)
\* ------------------------------------------------------------------------
\* Properties
\* ------------------------------------------------------------------------

\* The elements the last call produced itself (those after the parent's).
OwnElems == SubSeq(result.elems, result.inherited + 1, Len(result.elems))

\* The entry config of the last call: its file path, name and data.
EntryFilePath ==
    IF call.op = "create"
    THEN (IF call.filePath = UndefStr THEN <<>>
          ELSE pathResolve(Cwd, call.filePath))
    ELSE pathResolve(Cwd, call.filePath)

EntryName ==
    IF call.name # UndefStr THEN call.name
    ELSE IF EntryFilePath = <<>> THEN <<>>
    ELSE pathRelative(Cwd, EntryFilePath)

HasEntry ==
    \/ call.op = "create" /\ call.data # "null"
    \/ /\ call.op = "loadFile" /\ exists(EntryFilePath)
       /\ Content(fs[EntryFilePath]).kind = "value"
       /\ pathBasename(EntryFilePath) = <<"package", ".", "json">>
            => "eslintConfig" \in DOMAIN Content(fs[EntryFilePath]).data

EntryData ==
    IF call.op = "create" THEN ConfigData(call.data)
    ELSE IF pathBasename(EntryFilePath) = <<"package", ".", "json">>
    THEN Content(fs[EntryFilePath]).data.eslintConfig
    ELSE Content(fs[EntryFilePath]).data

\* The directory against which the criteria of the last call are resolved.
EntryBasePath ==
    IF call.op = "loadOnDirectory" THEN pathResolve(Cwd, call.filePath)
    ELSE IF EntryFilePath = <<>> THEN Cwd
    ELSE pathDirname(EntryFilePath)

\* The non-empty entries of a config's `extends`, in declared order.
ExtendListOf(data) ==
    SelectSeq(normalizePatterns(Get(data, "extends", UndefObj)),
              LAMBDA e : e # <<>>)

\* The label an `extends` entry contributes to the names of its elements.
ExtendLabel(extendName) ==
    IF startsWith(extendName, <<"eslint", ":">>) THEN extendName
    ELSE IF startsWith(extendName, <<"plugin", ":">>)
    THEN LET k == lastIndexOf(extendName, "/")
         IN  <<"plugin", ":">>
             \o getShorthandName(
                  normalizePackageName(slice(extendName, 2, k),
                                       EslintPluginPrefix),
                  EslintPluginPrefix)
             \o slice(extendName, k, Len(extendName))
    ELSE IF isFilePath(extendName) THEN extendName
    ELSE IF startsWith(extendName, <<".">>) THEN <<".", "/">> \o extendName
    ELSE normalizePackageName(extendName, EslintConfigPrefix)

\* The positions of the elements flattened from `extends` entry m of the
\* config named name.
ExtendBlock(els, name, extendList, m) ==
    { p \in 1..Len(els) :
        startsWith(els[p].name,
                   name \o <<" » ">> \o ExtendLabel(extendList[m])) }

\* The positions of the elements named exactly name.
NamedExactly(els, name) == { p \in 1..Len(els) : els[p].name = name }

\* C1: when a config declares `extends`, every entry contributes at least
\* one element, the elements of an earlier entry all precede those of a
\* later entry, and all of them precede the declaring config's own element;
\* at every depth, the elements flattened from the `extends` of a config
\* precede that config's own element.
C1_ExtendsPrecedeDeclarerInOrder ==
    (~result.threw /\ HasEntry) =>
        LET els == OwnElems
            L == ExtendListOf(EntryData)
            name == EntryName
            own == NamedExactly(els, name)
        IN  /\ \A m \in 1..Len(L) :
                LET block == ExtendBlock(els, name, L, m)
                IN  /\ block # {}
                    /\ \A p \in block :
                        /\ \A o \in own : p < o
                        /\ \A n \in (m + 1)..Len(L) :
                            ExtendLabel(L[m]) # ExtendLabel(L[n]) =>
                                \A q \in ExtendBlock(els, name, L, n) : p < q
            /\ own # {}
            /\ \A p, q \in 1..Len(els) :
                startsWith(els[p].name, els[q].name \o <<" » ">>) => p < q

\* A config extending two configs, the first of which extends a third, was
\* resolved.
C1_Witness ==
    /\ ~result.threw /\ HasEntry
    /\ Len(ExtendListOf(EntryData)) = 2
    /\ \E p \in ExtendBlock(OwnElems, EntryName, ExtendListOf(EntryData), 1) :
        \E q \in 1..Len(OwnElems) :
            /\ q # p
            /\ startsWith(OwnElems[q].name, OwnElems[p].name \o <<" » ">>)

\* The label override entry m of a config contributes to the names of its
\* elements.
OverrideLabel(m) == <<"#overrides[", ToString(m - 1), "]">>

\* The positions of the elements flattened from `overrides` entry m of the
\* config named name.
OverrideBlock(els, name, m) ==
    { p \in 1..Len(els) : startsWith(els[p].name, name \o OverrideLabel(m)) }

\* C2: when a config declares `overrides`, every entry contributes at least
\* one element, the declaring config's own element precedes all of them, and
\* the elements of an earlier entry all precede those of a later entry; at
\* every depth, no element flattened from an override entry precedes the own
\* element of the config that declares the entry.
C2_OverridesFollowDeclarerInOrder ==
    (~result.threw /\ HasEntry) =>
        LET els == OwnElems
            O == Get(EntryData, "overrides", <<>>)
        IN  /\ \A m \in 1..Len(O) :
                /\ OverrideBlock(els, EntryName, m) # {}
                /\ \A p \in OverrideBlock(els, EntryName, m) :
                    /\ \A o \in NamedExactly(els, EntryName) : o < p
                    /\ \A n \in (m + 1)..Len(O) :
                        \A q \in OverrideBlock(els, EntryName, n) : p < q
            /\ NamedExactly(els, EntryName) # {}
            /\ \A p, q \in 1..Len(els) :
                startsWith(els[p].name, els[q].name \o <<"#overrides[">>)
                    => q < p

\* A config with two override entries was resolved, the first of which
\* yields more elements than its own.
C2_Witness ==
    /\ ~result.threw /\ HasEntry
    /\ Len(Get(EntryData, "overrides", <<>>)) = 2
    /\ OverrideBlock(OwnElems, EntryName, 1) # {}
    /\ OverrideBlock(OwnElems, EntryName, 2) # {}
    /\ \E p \in OverrideBlock(OwnElems, EntryName, 1) :
        OwnElems[p].name # EntryName \o OverrideLabel(1)

\* C3: every element of a returned config array that has criteria has
\* `root` undefined.
C3_CriteriaImpliesRootUndefined ==
    \A p \in 1..Len(result.elems) :
        result.elems[p].criteria # Null => result.elems[p].root = "undefined"

\* An override entry extends a shareable config that declares root: true,
\* and the element of that config is in the returned array.
C3_Witness ==
    /\ ~result.threw
    /\ fs[ConfigAPath] = "rooted"
    /\ \E p \in 1..Len(OwnElems) :
        /\ OwnElems[p].filePath = ConfigAPath
        /\ OwnElems[p].criteria # Null
        /\ OwnElems[p].rules = ConfigData("rooted").rules

\* The files the criteria of the returned elements are tested against.
TestPaths ==
    { pathJoin(Cwd, <<"a", ".", "xxx">>),
      pathJoin(Cwd, <<"b", ".", "yyy">>),
      pathJoin(Cwd, <<"lib", "/", "a", ".", "xxx">>),
      pathJoin(Cwd, <<"lib", "/", "b", ".", "yyy">>),
      pathJoin(SubDir, <<"a", ".", "xxx">>),
      pathJoin(SubDir, <<"lib", "/", "a", ".", "xxx">>) }

\* Whether a file satisfies the criteria an override entry declares, taken
\* against the base path of the entry config.
Satisfies(filePath, entry) ==
    LET tester == OverrideTesterCreate(Get(entry, "files", UndefObj),
                                       Get(entry, "excludedFiles", UndefObj),
                                       EntryBasePath)
    IN  tester = Null \/ OverrideTesterTest(tester, filePath)

\* The override entries reachable from a config through `overrides` and
\* through the shareable configs it extends: for each, the name of its own
\* element and the chain of the override entries enclosing it, outermost
\* first and the entry itself last.
RECURSIVE OverrideChains(_, _, _, _, _)
OverrideChains(data, filePath, name, chain, d) ==
    IF d > MaxDepth THEN {}
    ELSE
    LET O == Get(data, "overrides", <<>>)
        L == ExtendListOf(data)
        relativeTo == IF filePath = <<>>
                      THEN pathJoin(Cwd, <<".", "eslintrc">>)
                      ELSE filePath
        Extended(m) ==
            IF \/ startsWith(L[m], <<"eslint", ":">>)
               \/ startsWith(L[m], <<"plugin", ":">>)
            THEN <<>>
            ELSE ModuleResolverResolve(ExtendLabel(L[m]), relativeTo)
    IN  UNION { { [ name |-> name \o OverrideLabel(j),
                    chain |-> Append(chain, O[j]) ] }
                \cup OverrideChains(O[j], filePath,
                                    name \o OverrideLabel(j),
                                    Append(chain, O[j]), d)
                : j \in 1..Len(O) }
        \cup
        UNION { LET file == Extended(m)
                IN  IF file # <<>>
                    THEN OverrideChains(Content(fs[file]).data, file,
                                        name \o <<" » ">> \o ExtendLabel(L[m]),
                                        chain, d + 1)
                    ELSE {}
                : m \in 1..Len(L) }

\* C4: the own element of an override entry nested in other override
\* entries, directly or through the `extends` of an enclosing entry, is in
\* the returned array, and its criteria match a file exactly when the file
\* satisfies the criteria of the entry and of every entry enclosing it.
C4_NestedCriteriaAreConjoined ==
    (~result.threw /\ HasEntry) =>
        \A n \in OverrideChains(EntryData, EntryFilePath, EntryName, <<>>, 0) :
            Len(n.chain) >= 2 =>
                /\ NamedExactly(OwnElems, n.name) # {}
                /\ \A p \in NamedExactly(OwnElems, n.name) :
                    /\ OwnElems[p].criteria # Null
                    /\ \A f \in TestPaths :
                        OverrideTesterTest(OwnElems[p].criteria, f)
                            <=> \A k \in 1..Len(n.chain) :
                                    Satisfies(f, n.chain[k])

\* An override entry nested three levels deep through a shareable config was
\* resolved; a file satisfying all three criteria matches it and a file
\* satisfying only the innermost does not.
C4_Witness ==
    /\ ~result.threw /\ HasEntry
    /\ \E n \in OverrideChains(EntryData, EntryFilePath, EntryName, <<>>, 0) :
        /\ Len(n.chain) >= 3
        /\ \E p \in NamedExactly(OwnElems, n.name) :
            /\ OwnElems[p].filePath # EntryFilePath
            /\ \E f \in TestPaths :
                OverrideTesterTest(OwnElems[p].criteria, f)
            /\ \E f \in TestPaths :
                /\ Satisfies(f, n.chain[Len(n.chain)])
                /\ ~OverrideTesterTest(OwnElems[p].criteria, f)

EntryIsFlat ==
    /\ HasEntry
    /\ ExtendListOf(EntryData) = <<>>
    /\ Get(EntryData, "overrides", <<>>) = <<>>

\* The ids under which the plugins of a `plugins` list are kept.
PluginIds(names) ==
    [ i \in 1..Len(names) |->
        getShorthandName(normalizePackageName(names[i], EslintPluginPrefix),
                         EslintPluginPrefix) ]

\* The fields of an element equal the normalized config data: every value
\* as given (undefined when not given), the parser and the plugins as
\* dependencies under their ids.
FieldsEqual(element, data) ==
    /\ element.name = EntryName
    /\ element.filePath = EntryFilePath
    /\ element.criteria = Null
    /\ element.env = Get(data, "env", UndefObj)
    /\ element.globals = Get(data, "globals", UndefObj)
    /\ element.parserOptions = Get(data, "parserOptions", UndefObj)
    /\ element.processor = Get(data, "processor", UndefStr)
    /\ element.root = Get(data, "root", "undefined")
    /\ element.rules = Get(data, "rules", UndefObj)
    /\ element.settings = Get(data, "settings", UndefObj)
    /\ IF "parser" \in DOMAIN data
       THEN element.parser # UndefObj /\ element.parser.id = data.parser
       ELSE element.parser = UndefObj
    /\ IF "plugins" \in DOMAIN data
       THEN /\ element.plugins # UndefObj
            /\ [ i \in 1..Len(element.plugins.map) |->
                    element.plugins.map[i].id ] = PluginIds(data.plugins)
       ELSE element.plugins = UndefObj

\* The file extension processors of the plugins of an element: pairs of
\* the position of the plugin and the position of the processor.
FileExtensionProcessors(element) ==
    IF element.plugins = UndefObj THEN {}
    ELSE LET map == element.plugins.map
             processorsOf(i) ==
                IF map[i].definition = UndefObj THEN <<>>
                ELSE Get(map[i].definition, "processors", <<>>)
         IN  { pr \in (1..Len(map)) \X (1..3) :
                /\ pr[2] <= Len(processorsOf(pr[1]))
                /\ Head(processorsOf(pr[1])[pr[2]]) = "." }

\* The statement as it stands: a config without `extends` and `overrides`
\* yields exactly one element, whose fields equal the normalized input.
C6_ExactlyOneElement ==
    (~result.threw /\ EntryIsFlat) =>
        /\ Len(OwnElems) = 1
        /\ FieldsEqual(OwnElems[1], EntryData)

\* C6: a config without `extends` and `overrides` yields its own element,
\* whose fields equal the normalized input, as the last element, after one
\* element with criteria and a processor for each file extension processor
\* of its plugins; it yields exactly one element when its plugins have no
\* file extension processor.
C6_OwnElementAfterProcessors ==
    (~result.threw /\ EntryIsFlat) =>
        LET els == OwnElems
            n == Len(els)
        IN  /\ n >= 1
            /\ FieldsEqual(els[n], EntryData)
            /\ n = 1 + Cardinality(FileExtensionProcessors(els[n]))
            /\ \A p \in 1..(n - 1) :
                /\ els[p].criteria # Null
                /\ els[p].processor # UndefStr
                /\ els[p].plugins = UndefObj
                /\ els[p].rules = UndefObj

\* A config with only `plugins` and `parser` was resolved, and its plugin has
\* two file extension processors and one other processor.
C6_Witness ==
    /\ ~result.threw /\ EntryIsFlat
    /\ "plugins" \in DOMAIN EntryData
    /\ Len(OwnElems) = 3
    /\ Cardinality(FileExtensionProcessors(OwnElems[3])) = 2
    /\ Len(OwnElems[3].plugins.map[1].definition.processors) = 3

\* What loading the plugin kept under id gives, from the pool and the files
\* as they are: the definition, or UndefObj when loading fails.
PluginDefinition(id) ==
    LET request == normalizePackageName(id, EslintPluginPrefix)
        filePath == ModuleResolverResolve(request,
                                          pathJoin(Cwd, <<".", "eslintrc">>))
    IN  IF poolHas(additionalPluginPool, request)
        THEN additionalPluginPool[request]
        ELSE IF poolHas(additionalPluginPool, id)
        THEN additionalPluginPool[id]
        ELSE IF filePath # <<>> /\ Content(fs[filePath]).kind = "value"
        THEN Content(fs[filePath]).data
        ELSE UndefObj

\* The entry config is data that passes validation, with a `plugins` list
\* of names and nothing to extend.
EntryListsPlugins ==
    /\ EntryIsFlat
    /\ DOMAIN EntryData \subseteq TopLevelKeys
    /\ "plugins" \in DOMAIN EntryData
    /\ \A i \in 1..Len(EntryData.plugins) : ~isFilePath(EntryData.plugins[i])

\* C7: a plugin that fails to load is kept in the plugins map of the
\* element that lists it, under its id, with the error and without a
\* definition, and a plugin that loads is kept with its definition; a config
\* that lists plugins and extends nothing is resolved without an error
\* whether or not its plugins load, its own element has every listed plugin
\* and every other field as declared.
C7_PluginFailureIsDeferred ==
    /\ \A p \in 1..Len(result.elems) :
        result.elems[p].plugins # UndefObj =>
            \A i \in 1..Len(result.elems[p].plugins.map) :
                LET dep == result.elems[p].plugins.map[i]
                IN  /\ dep.definition = PluginDefinition(dep.id)
                    /\ (dep.definition = UndefObj) <=> (dep.error # NoError)
    /\ EntryListsPlugins =>
        /\ ~result.threw
        /\ FieldsEqual(OwnElems[Len(OwnElems)], EntryData)

\* A config listing a plugin that cannot be found and a plugin that loads
\* was resolved: the first is kept with its error, the second with its
\* definition.
C7_Witness ==
    /\ ~result.threw /\ EntryListsPlugins
    /\ Len(EntryData.plugins) = 2
    /\ LET map == OwnElems[Len(OwnElems)].plugins.map
       IN  /\ map[1].error # NoError
           /\ map[1].error.messageTemplate = "plugin-missing"
           /\ map[1].definition = UndefObj
           /\ map[2].error = NoError
           /\ map[2].definition # UndefObj

\* What loading the parser of an element gives, from the pool and the files
\* as they are: the definition, or UndefObj when loading fails.
ParserDefinition(element) ==
    LET id == element.parser.id
        relativeTo == IF element.filePath = <<>>
                      THEN pathJoin(Cwd, <<".", "eslintrc">>)
                      ELSE element.filePath
        filePath == ModuleResolverResolve(id, relativeTo)
    IN  IF poolHas(additionalParserPool, id) THEN additionalParserPool[id]
        ELSE IF filePath # <<>> /\ Content(fs[filePath]).kind = "value"
        THEN Content(fs[filePath]).data
        ELSE UndefObj

\* The entry config is data that passes validation, with a `parser`, no
\* file path in `plugins` and nothing to extend.
EntryDeclaresParser ==
    /\ EntryIsFlat
    /\ DOMAIN EntryData \subseteq TopLevelKeys
    /\ "parser" \in DOMAIN EntryData
    /\ \A i \in 1..Len(Get(EntryData, "plugins", <<>>)) :
        ~isFilePath(EntryData.plugins[i])

\* C8: a parser other than the default one that fails to load is kept in
\* the element that declares it, under its id, with the error and without a
\* definition, and a parser that loads is kept with its definition; a config
\* that declares a parser and extends nothing is resolved without an error
\* whether or not the parser loads.
C8_ParserFailureIsDeferred ==
    /\ \A p \in 1..Len(result.elems) :
        LET element == result.elems[p]
        IN  (element.parser # UndefObj /\ element.parser.id # <<"espree">>)
                => /\ element.parser.definition = ParserDefinition(element)
                   /\ (element.parser.definition = UndefObj)
                        <=> (element.parser.error # NoError)
    /\ EntryDeclaresParser =>
        /\ ~result.threw
        /\ FieldsEqual(OwnElems[Len(OwnElems)], EntryData)

\* A config whose parser throws while it is loaded was resolved, and so were
\* its plugin and the other elements.
C8_Witness ==
    /\ ~result.threw /\ EntryDeclaresParser
    /\ fs[ParserXPath] = "throws"
    /\ LET own == OwnElems[Len(OwnElems)]
       IN  /\ own.parser.id = <<"xparser">>
           /\ own.parser.definition = UndefObj
           /\ own.parser.error # NoError
           /\ own.parser.error.code # "MODULE_NOT_FOUND"
           /\ own.plugins.map[1].error = NoError

\* Whether the config of a plugin named by a `plugin:` entry cannot be had:
\* the plugin is given as a file path, its name holds whitespace, it fails
\* to load, or it has no config of that name.
PluginConfigFails(extendName) ==
    LET k == lastIndexOf(extendName, "/")
        pluginName == slice(extendName, 2, k)
        configName == slice(extendName, k + 1, Len(extendName))
        definition ==
            PluginDefinition(
                getShorthandName(
                    normalizePackageName(pluginName, EslintPluginPrefix),
                    EslintPluginPrefix))
    IN  \/ isFilePath(pluginName)
        \/ \E i \in 1..Len(pluginName) : pluginName[i] \in Whitespace
        \/ definition = UndefObj
        \/ configName \notin DOMAIN Get(definition, "configs", EmptyObj)

\* Whether an `extends` entry of the config at importerPath cannot be
\* resolved: an unknown `eslint:` name, a plugin config that cannot be had,
\* or a shareable config that is not found.
ExtendFails(extendName, importerPath) ==
    IF startsWith(extendName, <<"eslint", ":">>)
    THEN extendName \notin { <<"eslint", ":", "recommended">>,
                            <<"eslint", ":", "all">> }
    ELSE IF startsWith(extendName, <<"plugin", ":">>)
    THEN PluginConfigFails(extendName)
    ELSE ModuleResolverResolve(
            ExtendLabel(extendName),
            IF importerPath = <<>> THEN pathJoin(Cwd, <<".", "eslintrc">>)
            ELSE importerPath) = <<>>

\* Whether flattening a config meets an `extends` entry that cannot be
\* resolved: in its own list, in its override entries or in the shareable
\* configs it extends.
RECURSIVE MeetsFailingExtend(_, _, _)
MeetsFailingExtend(data, filePath, d) ==
    LET L == ExtendListOf(data)
        O == Get(data, "overrides", <<>>)
        relativeTo ==
            IF filePath = <<>> THEN pathJoin(Cwd, <<".", "eslintrc">>)
            ELSE filePath
    IN  \/ \E m \in 1..Len(L) :
                IF \/ startsWith(L[m], <<"eslint", ":">>)
                   \/ startsWith(L[m], <<"plugin", ":">>)
                THEN ExtendFails(L[m], filePath)
                ELSE LET file == ModuleResolverResolve(ExtendLabel(L[m]),
                                                       relativeTo)
                     IN  \/ file = <<>>
                         \/ /\ d < MaxDepth
                            /\ Content(fs[file]).kind = "value"
                            /\ MeetsFailingExtend(Content(fs[file]).data,
                                                  file, d + 1)
        \/ \E j \in 1..Len(O) : MeetsFailingExtend(O[j], filePath, d)

\* C9: a call whose flattening meets an `extends` entry that cannot be
\* resolved throws and returns no element; no returned element holds the
\* error of a failed `extends` entry.
C9_ExtendsFailureThrows ==
    (HasEntry /\ MeetsFailingExtend(EntryData, EntryFilePath, 0)) =>
        /\ result.threw
        /\ result.elems = <<>>
        /\ result.err # NoError

\* A config extending the config of a plugin that throws while it is loaded
\* made the call throw the error of the plugin.
C9_Witness ==
    /\ HasEntry /\ result.threw
    /\ ExtendListOf(EntryData) = << PluginPConfigC >>
    /\ fs[PluginPPath] = "throws"
    /\ PluginConfigFails(PluginPConfigC)
    /\ result.err.code # "MODULE_NOT_FOUND"
    /\ result.err.messageTemplate # "extend-config-missing"

\* The names of the built-in configs.
BuiltInNames ==
    { <<"eslint", ":", "recommended">>, <<"eslint", ":", "all">> }

\* The entry config passes validation and the first entry of its `extends`
\* starts with "eslint:".
EntryExtendsEslintName ==
    /\ HasEntry
    /\ DOMAIN EntryData \subseteq TopLevelKeys
    /\ ExtendListOf(EntryData) # <<>>
    /\ startsWith(ExtendListOf(EntryData)[1], <<"eslint", ":">>)

\* C10: an `extends` entry eslint:recommended or eslint:all yields the
\* elements of the built-in config file of that name, the files being
\* those ESLint ships; any other entry
\* starting with "eslint:" makes the call throw the missing-config error
\* whose message names the entry, and no module resolution is attempted for
\* it.
C10_OnlyTwoBuiltInNames ==
    EntryExtendsEslintName =>
        LET L == ExtendListOf(EntryData)
        IN  IF L[1] \in BuiltInNames
            THEN (/\ \A m \in 1..Len(L) : L[m] \in BuiltInNames
                  /\ fs[eslintAllPath] = "all") =>
                    /\ ~result.threw
                    /\ \A m \in 1..Len(L) :
                        \E p \in ExtendBlock(OwnElems, EntryName, L, m) :
                            OwnElems[p].filePath =
                                IF L[m] = <<"eslint", ":", "all">>
                                THEN eslintAllPath
                                ELSE eslintRecommendedPath
            ELSE /\ result.threw
                 /\ result.err.messageTemplate = "extend-config-missing"
                 /\ startsWith(result.err.message,
                               <<"Failed to load config \"">> \o L[1]
                                   \o <<"\" to extend from.">>)
                 /\ result.log = {}

\* A config whose `extends` starts with eslint:foo, followed by a shareable
\* config that exists, made the call throw.
C10_Witness ==
    /\ EntryExtendsEslintName
    /\ ExtendListOf(EntryData)[1] = <<"eslint", ":", "foo">>
    /\ Len(ExtendListOf(EntryData)) = 2
    /\ ~ExtendFails(ExtendListOf(EntryData)[2], EntryFilePath)
    /\ result.threw
    /\ result.log = {}

\* The positions of the names of a `plugins` list that hold whitespace.
WhitespaceNames(names) ==
    { i \in 1..Len(names) :
        \E k \in 1..Len(names[i]) : names[i][k] \in Whitespace }

\* The request for the plugin named name.
PluginRequest(name) == normalizePackageName(name, EslintPluginPrefix)

\* The statement as it stands: a `plugins` list with a name that holds
\* whitespace makes the call throw the whitespace error, with no module
\* resolution attempted for the name.
C11_WhitespaceThrows ==
    (EntryListsPlugins /\ WhitespaceNames(EntryData.plugins) # {}) =>
        /\ result.threw
        /\ result.err.messageTemplate = "whitespace-found"
        /\ \A i \in WhitespaceNames(EntryData.plugins) :
            \A a \in result.log : a.request # PluginRequest(EntryData.plugins[i])

\* C11: a name with whitespace in a `plugins` list does not make the call
\* throw: the own element keeps the plugin under its id with the whitespace
\* error and without a definition, and no module resolution is attempted
\* for it; the call throws the whitespace error when the name is that of
\* the plugin of a `plugin:` entry of `extends`.
C11_WhitespaceIsDeferredInPlugins ==
    /\ (EntryListsPlugins /\ WhitespaceNames(EntryData.plugins) # {}) =>
        /\ ~result.threw
        /\ \A i \in WhitespaceNames(EntryData.plugins) :
            LET dep == OwnElems[Len(OwnElems)].plugins.map[i]
            IN  /\ dep.error # NoError
                /\ dep.error.messageTemplate = "whitespace-found"
                /\ dep.definition = UndefObj
                /\ \A a \in result.log :
                    a.request # PluginRequest(EntryData.plugins[i])
    /\ (HasEntry
        /\ DOMAIN EntryData \subseteq TopLevelKeys
        /\ Len(ExtendListOf(EntryData)) = 1
        /\ startsWith(ExtendListOf(EntryData)[1], <<"plugin", ":">>)
        /\ WhitespaceNames(ExtendListOf(EntryData)) # {}) =>
            /\ result.threw
            /\ result.err.messageTemplate = "whitespace-found"
            /\ result.log = {}

\* A config listing a plugin whose name ends with a space and a plugin that
\* loads was resolved; the module of the second was looked for, that of the
\* first was not.
C11_Witness ==
    /\ ~result.threw /\ EntryListsPlugins
    /\ WhitespaceNames(EntryData.plugins) = {1}
    /\ OwnElems[Len(OwnElems)].plugins.map[1].error.messageTemplate
            = "whitespace-found"
    /\ OwnElems[Len(OwnElems)].plugins.map[2].error = NoError
    /\ \E a \in result.log : a.request = PluginRequest(EntryData.plugins[2])

\* Whether a config has a top-level property the schema does not know.
Invalid(data) == ~(DOMAIN data \subseteq TopLevelKeys)

\* The file a shareable config named in the `extends` of the config at
\* importerPath resolves to (<<>> when there is none).
ShareableFile(extendName, importerPath) ==
    ModuleResolverResolve(
        ExtendLabel(extendName),
        IF importerPath = <<>> THEN pathJoin(Cwd, <<".", "eslintrc">>)
        ELSE importerPath)

\* Whether an `extends` entry names a built-in config, a plugin config or a
\* shareable config that is there and has an unknown top-level property.
ReachesInvalid(extendName, importerPath) ==
    IF startsWith(extendName, <<"eslint", ":">>)
    THEN /\ extendName \in { <<"eslint", ":", "recommended">>,
                            <<"eslint", ":", "all">> }
         /\ Invalid(Content(fs[IF extendName = <<"eslint", ":", "all">>
                               THEN eslintAllPath
                               ELSE eslintRecommendedPath]).data)
    ELSE IF startsWith(extendName, <<"plugin", ":">>)
    THEN /\ ~PluginConfigFails(extendName)
         /\ LET k == lastIndexOf(extendName, "/")
            IN  Invalid(
                    PluginDefinition(
                        getShorthandName(
                            normalizePackageName(slice(extendName, 2, k),
                                                 EslintPluginPrefix),
                            EslintPluginPrefix))
                    .configs[slice(extendName, k + 1, Len(extendName))])
    ELSE /\ ~ExtendFails(extendName, importerPath)
         /\ Content(fs[ShareableFile(extendName, importerPath)]).kind = "value"
         /\ Invalid(Content(fs[ShareableFile(extendName, importerPath)]).data)

\* Whether an `extends` entry of the config at importerPath is fatal to the
\* call: it cannot be resolved, the shareable config it names cannot be
\* read, or the config it names has a property the schema does not know.
FatalExtend(extendName, importerPath) ==
    IF \/ startsWith(extendName, <<"eslint", ":">>)
       \/ startsWith(extendName, <<"plugin", ":">>)
    THEN \/ ExtendFails(extendName, importerPath)
         \/ ReachesInvalid(extendName, importerPath)
    ELSE LET file == ShareableFile(extendName, importerPath)
         IN  \/ file = <<>>
             \/ Content(fs[file]).kind # "value"
             \/ Invalid(Content(fs[file]).data)

\* The positions of the fatal entries of the `extends` list of the entry
\* config.
FatalExtends ==
    { m \in 1..Len(ExtendListOf(EntryData)) :
        FatalExtend(ExtendListOf(EntryData)[m], EntryFilePath) }

\* C12: a call either returns a sequence or throws.  A call that throws
\* gives no element, neither its own nor the parent's; a call whose entry
\* config has a fatal `extends` entry throws, also when the entries before
\* it had yielded their elements; a call that returns gives, for a valid
\* entry config, the elements of every `extends` entry and the own element
\* of the config; and the parent array holds after the call the elements it
\* held before it.
C12_AllOrNothing ==
    /\ result.threw =>
        /\ result.elems = <<>>
        /\ result.inherited = 0
        /\ result.err # NoError
    /\ (HasEntry /\ FatalExtends # {}) => result.threw
    /\ (HasEntry /\ ~result.threw) =>
        /\ result.err = NoError
        /\ \A m \in 1..Len(ExtendListOf(EntryData)) :
            ExtendBlock(OwnElems, EntryName, ExtendListOf(EntryData), m) # {}
        /\ NamedExactly(OwnElems, EntryName) # {}
    /\ parent = ParentElements
    /\ (~result.threw /\ result.inherited > 0) =>
        SubSeq(result.elems, 1, result.inherited) = parent

\* A call given a parent threw on the schema of the second config its entry
\* config extends, after the first had been flattened into three elements.
C12_Witness ==
    /\ call.op = "create" /\ call.data = "ext_ba" /\ call.hasParent
    /\ fs[ConfigAPath] = "invalid"
    /\ FatalExtends = {2}
    /\ Len(_loadExtends(ExtendListOf(EntryData)[1], <<>>, <<>>, 0).elems) = 3
    /\ result.threw
    /\ result.elems = <<>>
    /\ parent = ParentElements

\* Whether flattening a valid config reaches a config with an unknown
\* top-level property through `extends`: from its own list, from its
\* override entries or from the shareable configs it extends.
RECURSIVE MeetsInvalid(_, _, _)
MeetsInvalid(data, filePath, d) ==
    LET L == ExtendListOf(data)
        O == Get(data, "overrides", <<>>)
    IN  \/ \E m \in 1..Len(L) :
                IF \/ startsWith(L[m], <<"eslint", ":">>)
                   \/ startsWith(L[m], <<"plugin", ":">>)
                THEN ReachesInvalid(L[m], filePath)
                ELSE LET file == ShareableFile(L[m], filePath)
                     IN  /\ file # <<>>
                         /\ Content(fs[file]).kind = "value"
                         /\ \/ Invalid(Content(fs[file]).data)
                            \/ /\ d < MaxDepth
                               /\ MeetsInvalid(Content(fs[file]).data,
                                               file, d + 1)
        \/ \E j \in 1..Len(O) : MeetsInvalid(O[j], filePath, d)

\* Whether an error is the error of the schema validation of the config
\* named source.
IsSchemaError(err, source) ==
    /\ err # NoError
    /\ startsWith(err.message, <<"ESLint configuration in ">> \o source)
    /\ \E i \in 1..Len(err.message) :
        err.message[i] = " is invalid: Unexpected top-level property \""

\* Whether a file other than a plugin or a parser is there and cannot be
\* read as a config.
SomeConfigUnreadable ==
    \E p \in { EntryPath, ConfigAPath, ConfigBPath, eslintAllPath } :
        Content(fs[p]).kind \in { "malformed", "throws" }

\* C13: an entry config with an unknown top-level property makes the call
\* throw the schema error naming the config, with no module resolution
\* attempted; a valid entry config that reaches such a config through
\* `extends` (a shareable config at any depth, a built-in config or the
\* config of a plugin) makes the call throw, and the error is a schema
\* error unless another `extends` entry fails or a config cannot be read.
C13_UnknownKeyAborts ==
    /\ (HasEntry /\ Invalid(EntryData)) =>
        /\ result.threw
        /\ result.elems = <<>>
        /\ IsSchemaError(result.err, EntryName)
        /\ result.log = {}
    /\ (HasEntry /\ ~Invalid(EntryData)
        /\ MeetsInvalid(EntryData, EntryFilePath, 0)) =>
        /\ result.threw
        /\ result.elems = <<>>
        /\ \/ IsSchemaError(result.err, <<>>)
           \/ MeetsFailingExtend(EntryData, EntryFilePath, 0)
           \/ SomeConfigUnreadable

\* The config file of the project, which has the unknown property `files`
\* and declares `extends`, `plugins` and `parser`, was loaded: the call
\* threw the schema error naming the file before anything was resolved.
C13_Witness ==
    /\ call.op = "loadFile" /\ HasEntry /\ Invalid(EntryData)
    /\ { "extends", "plugins", "parser" } \subseteq DOMAIN EntryData
    /\ result.threw
    /\ IsSchemaError(result.err, <<".", "eslintrc", ".", "json">>)
    /\ result.log = {}

\* The directory of the last call, when it is a loadOnDirectory call.
DirectoryPath == pathResolve(Cwd, call.filePath)

\* The config file names whose file exists in a directory; package.json
\* counts when it has the eslintConfig field.
CandidatesIn(dir) ==
    { i \in 1..Len(configFilenames) :
        /\ exists(Candidate(dir, i))
        /\ (i = 6 /\ Content(fs[Candidate(dir, i)]).kind = "value")
            => "eslintConfig" \in DOMAIN Content(fs[Candidate(dir, i)]).data }

\* The first of them in the order of configFilenames.
FirstCandidate(dir) ==
    CHOOSE i \in CandidatesIn(dir) : \A j \in CandidatesIn(dir) : i <= j

\* The elements of the last call are those of the config file at filePath:
\* there is one, and each is named after the file or after what the file
\* extends or overrides.
BuiltFrom(filePath) ==
    /\ OwnElems # <<>>
    /\ \A p \in 1..Len(OwnElems) :
        \/ OwnElems[p].name = pathRelative(Cwd, filePath)
        \/ \E label \in { " » ", "#overrides[", "#processors[\"" } :
            startsWith(OwnElems[p].name,
                       pathRelative(Cwd, filePath) \o << label >>)
    /\ \E p \in 1..Len(OwnElems) :
        /\ OwnElems[p].name = pathRelative(Cwd, filePath)
        /\ OwnElems[p].filePath = filePath

\* C14: a loadOnDirectory call on a directory where a config file exists
\* that returns gives the elements of the first file that exists, in the
\* order .eslintrc.js, .eslintrc.yaml, .eslintrc.yml, .eslintrc.json,
\* .eslintrc, package.json with the eslintConfig field, and no element of
\* a later one.
C14_FirstExistingCandidateWins ==
    (call.op = "loadOnDirectory" /\ CandidatesIn(DirectoryPath) # {}
     /\ ~result.threw) =>
        BuiltFrom(Candidate(DirectoryPath, FirstCandidate(DirectoryPath)))

EntryFileUnreadable ==
    \/ ~exists(EntryFilePath)
    \/ Content(fs[EntryFilePath]).kind \in { "malformed", "throws" }
    \/ /\ pathBasename(EntryFilePath) = <<"package", ".", "json">>
       /\ Content(fs[EntryFilePath]).kind = "value"
       /\ "eslintConfig" \notin DOMAIN Content(fs[EntryFilePath]).data

\* C16: a loadFile call on a file that does not exist, cannot be parsed or
\* is a package.json without the eslintConfig field throws the error whose
\* message starts with "Cannot read config file: " and the path of the
\* file, and returns no element, not even the parent's.
C16_LoadFileThrowsCannotRead ==
    (call.op = "loadFile" /\ EntryFileUnreadable) =>
        /\ result.threw
        /\ result.elems = <<>>
        /\ startsWith(result.err.message,
                      <<"Cannot read config file: ">> \o EntryFilePath)

\* loadFile was called, with a parent, on a package.json without the
\* eslintConfig field that a directory search passes over.
C16_Witness ==
    /\ call.op = "loadFile" /\ call.hasParent
    /\ EntryFilePath = Candidate(PkgDir, 6)
    /\ EntryFileUnreadable
    /\ CandidatesIn(PkgDir) = {}
    /\ result.threw
    /\ result.err.code = "ESLINT_CONFIG_FIELD_NOT_FOUND"

\* The elements of the last call that are not those of the parent: the
\* parent's are those of the config file above the project.
ChildElems == SelectSeq(result.elems, LAMBDA e : e.filePath # ParentPath)

\* C17: a call given a parent that returns gives the elements of the
\* parent, in their order, followed by those of the child, unless the first
\* element of the child declares root: true, in which case it gives the
\* elements of the child alone; a call given no parent gives the elements
\* of the child.
C17_ParentPrependedUnlessRoot ==
    (call.op \in { "create", "loadFile", "loadOnDirectory" }
     /\ ~result.threw) =>
        IF call.hasParent /\ ~(ChildElems # <<>> /\ ChildElems[1].root = "true")
        THEN result.elems = parent \o ChildElems
        ELSE result.elems = ChildElems

\* A directory search given a parent found a config file that declares
\* root: true and returned the elements of that file alone.
C17_Witness ==
    /\ call.op = "loadOnDirectory" /\ call.hasParent
    /\ ~result.threw
    /\ result.elems # <<>>
    /\ result.elems[1].root = "true"
    /\ result.elems = ChildElems
    /\ parent = ParentArray(TRUE)
    /\ parent # <<>>

\* Whether element e holds the fields a config declares itself.
HoldsFieldsOf(e, data) ==
    /\ e.rules = Get(data, "rules", UndefObj)
    /\ e.env = Get(data, "env", UndefObj)
    /\ e.root = Get(data, "root", "undefined")

ProcessorElems(els, pluginId, processorId) ==
    { p \in 1..Len(els) :
        /\ startsWith(els[p].name, EntryName \o <<"#processors[\"">>)
        /\ els[p].processor = pluginId \o <<"/">> \o processorId }

\* The processors a plugin dependency defines (none when it failed to load).
ProcessorsOf(dep) ==
    IF dep.definition = UndefObj THEN <<>>
    ELSE Get(dep.definition, "processors", <<>>)

\* C19: when a valid entry config with a `plugins` list is resolved, every
\* processor whose key starts with "." of every plugin that loaded has
\* exactly one element, with the criteria of the single pattern "*" + key,
\* the processor pluginId/key and no plugins, placed after every element
\* flattened from `extends` and before the own element of the config; a
\* processor whose key does not start with "." has no element, and a
\* plugin that did not load has none.
C19_OneElementPerExtensionProcessor ==
    (HasEntry /\ ~result.threw /\ "plugins" \in DOMAIN EntryData) =>
        LET els == OwnElems
            L == ExtendListOf(EntryData)
            own == { p \in NamedExactly(els, EntryName) :
                        els[p].criteria = Null }
        IN  /\ Cardinality(own) = 1
            /\ \A o \in own :
                /\ \A i \in 1..Len(els[o].plugins.map) :
                    LET dep == els[o].plugins.map[i]
                    IN  \A k \in 1..Len(ProcessorsOf(dep)) :
                        LET key == ProcessorsOf(dep)[k]
                            at == ProcessorElems(els, dep.id, key)
                        IN  IF Head(key) = "."
                            THEN /\ Cardinality(at) = 1
                                 /\ \A p \in at :
                                    /\ p < o
                                    /\ els[p].criteria # Null
                                    /\ els[p].criteria.patterns =
                                        << [ includes |-> << <<"*">> \o key >>,
                                             excludes |-> <<>> ] >>
                                    /\ els[p].plugins = UndefObj
                                    /\ \A m \in 1..Len(L) :
                                        \A q \in ExtendBlock(els, EntryName,
                                                             L, m) : q < p
                            ELSE at = {}
                /\ \A p \in 1..Len(els) :
                    startsWith(els[p].name, EntryName \o <<"#processors[\"">>)
                        => \E i \in 1..Len(els[o].plugins.map) :
                            \E k \in 1..Len(ProcessorsOf(els[o].plugins.map[i])) :
                                p \in ProcessorElems(
                                        els, els[o].plugins.map[i].id,
                                        ProcessorsOf(els[o].plugins.map[i])[k])

\* A config that extends a shareable config and lists a plugin with the
\* processors ".md", "other" and ".vue" was resolved: the elements of ".md"
\* and ".vue" stand between the four elements of `extends` and the own
\* element.
C19_Witness ==
    /\ HasEntry /\ ~result.threw /\ call.data = "ext_plug"
    /\ Len(OwnElems) = 7
    /\ ExtendBlock(OwnElems, EntryName, ExtendListOf(EntryData), 1) = 1..4
    /\ ProcessorElems(OwnElems, <<"p">>, <<".", "md">>) = {5}
    /\ ProcessorElems(OwnElems, <<"p">>, <<".", "vue">>) = {6}
    /\ ProcessorElems(OwnElems, <<"p">>, <<"other">>) = {}
    /\ OwnElems[7].name = EntryName
    /\ Len(ProcessorsOf(OwnElems[7].plugins.map[1])) = 3

\* The directories that hold a copy of the package of a parser, among the
\* directory of the config that declares it and the directories above it;
\* the working directory stands for the directory of a config without a
\* file path.
CopiesAbove(element) ==
    LET dirs == ancestors(IF element.filePath = <<>> THEN Cwd
                          ELSE pathDirname(element.filePath))
    IN  { k \in 1..Len(dirs) : exists(NodeModule(dirs[k], element.parser.id)) }

\* The copy nearest to the config that declares the parser.
NearestCopy(element) ==
    LET dirs == ancestors(IF element.filePath = <<>> THEN Cwd
                          ELSE pathDirname(element.filePath))
    IN  NodeModule(
            dirs[CHOOSE k \in CopiesAbove(element) :
                    \A j \in CopiesAbove(element) : k <= j],
            element.parser.id)

\* C20: the parser of an element, when it is a package name outside the
\* pool, is resolved relative to the file of the config that declares it,
\* or relative to the working directory when the config has no file path:
\* the resolution attempted is that one, a parser that loaded is the copy
\* nearest to the config, the copy next to it before the copy at the root
\* of the project, and a parser with no copy in the directory of the config
\* or above it has the error of the module that is not found.
C20_ParserResolvedFromImporter ==
    \A p \in 1..Len(result.elems) :
        LET element == result.elems[p]
        IN  (/\ element.parser # UndefObj
             /\ ~poolHas(additionalParserPool, element.parser.id)
             /\ ~isFilePath(element.parser.id)
             /\ element.parser.id # <<"espree">>) =>
                /\ Attempt(element.parser.id,
                           IF element.filePath = <<>>
                           THEN pathJoin(Cwd, <<".", "eslintrc">>)
                           ELSE element.filePath) \in result.log
                /\ IF CopiesAbove(element) = {}
                   THEN /\ element.parser.error # NoError
                        /\ element.parser.error.code = "MODULE_NOT_FOUND"
                   ELSE /\ element.parser.error = NoError
                            => element.parser.filePath = NearestCopy(element)
                        /\ Content(fs[NearestCopy(element)]).kind = "value"
                            => /\ element.parser.error = NoError
                               /\ element.parser.definition =
                                    Content(fs[NearestCopy(element)]).data

\* A config with the file path sub/a.js declaring the parser xparser was
\* resolved while the project root and sub/ both hold a copy of the
\* package: the parser is the copy of sub/.
C20_Witness ==
    /\ call.op = "create" /\ ~result.threw
    /\ EntryFilePath = pathJoin(SubDir, <<"a", ".", "js">>)
    /\ exists(ParserXPath) /\ exists(SubParserXPath)
    /\ OwnElems # <<>>
    /\ LET own == OwnElems[Len(OwnElems)]
       IN  /\ own.parser # UndefObj
           /\ own.parser.id = <<"xparser">>
           /\ own.parser.filePath = SubParserXPath
           /\ own.parser.definition = Content(fs[SubParserXPath]).data
           /\ own.parser.definition # Content(fs[ParserXPath]).data

\* The plugins an element holds that were asked of the module resolver:
\* those outside the pool whose name holds no whitespace.
ResolvedPlugins(element) ==
    IF element.plugins = UndefObj THEN {}
    ELSE { i \in 1..Len(element.plugins.map) :
            LET dep == element.plugins.map[i]
            IN  /\ ~poolHas(additionalPluginPool, PluginRequest(dep.id))
                /\ ~poolHas(additionalPluginPool, dep.id)
                /\ ~(dep.error # NoError
                     /\ dep.error.messageTemplate = "whitespace-found") }

\* The requests of the resolutions attempted that name a plugin package.
IsPluginRequest(request) ==
    \/ startsWith(request, EslintPluginPrefix \o <<"-">>)
    \/ request = EslintPluginPrefix

\* C21: a plugin is resolved relative to the working directory of the
\* factory whatever the file of the config that lists it or extends its
\* config: every resolution attempted for a plugin is relative to
\* <cwd>/.eslintrc, a plugin that loaded is the copy under the working
\* directory and never the copy next to the config, a plugin with no copy
\* under the working directory has the error of the module that is not
\* found although the directory of the config holds a copy, and the
\* elements of the config of a plugin have the file of the copy under the
\* working directory.
C21_PluginResolvedFromCwd ==
    /\ \A a \in result.log :
        IsPluginRequest(a.request) =>
            a.relativeTo = pathJoin(Cwd, <<".", "eslintrc">>)
    /\ \A p \in 1..Len(result.elems) :
        LET element == result.elems[p]
        IN  /\ \A i \in ResolvedPlugins(element) :
                LET dep == element.plugins.map[i]
                    rootCopy == NodeModule(Cwd, PluginRequest(dep.id))
                IN  /\ Attempt(PluginRequest(dep.id),
                               pathJoin(Cwd, <<".", "eslintrc">>))
                            \in result.log
                    /\ dep.error = NoError =>
                        /\ dep.filePath = rootCopy
                        /\ dep.definition = Content(fs[rootCopy]).data
                    /\ ~exists(rootCopy) =>
                        /\ dep.error # NoError
                        /\ dep.error.code = "MODULE_NOT_FOUND"
                        /\ dep.definition = UndefObj
            /\ \A k \in 1..Len(element.name) :
                (/\ element.name[k] = " » "
                 /\ k < Len(element.name)
                 /\ startsWith(SubSeq(element.name, k + 1, Len(element.name)),
                               <<"plugin", ":", "p", "/">>)
                 /\ ~poolHas(additionalPluginPool, PluginRequest(<<"p">>))
                 /\ ~poolHas(additionalPluginPool, <<"p">>)) =>
                    element.filePath = PluginPPath

\* A config with the file path sub/a.js listing the plugin p was resolved
\* while the working directory and sub/ both hold a copy of the package:
\* the plugin is the copy under the working directory.
C21_Witness ==
    /\ call.op = "create" /\ ~result.threw
    /\ EntryFilePath = pathJoin(SubDir, <<"a", ".", "js">>)
    /\ exists(PluginPPath) /\ exists(SubPluginPPath)
    /\ OwnElems # <<>>
    /\ LET own == OwnElems[Len(OwnElems)]
       IN  /\ ResolvedPlugins(own) # {}
           /\ own.plugins.map[1].id = <<"p">>
           /\ own.plugins.map[1].filePath = PluginPPath
           /\ own.plugins.map[1].definition = Content(fs[PluginPPath]).data
           /\ own.plugins.map[1].definition # Content(fs[SubPluginPPath]).data

\* Whether the pool of plugins has the plugin kept under id, under its
\* package name or under its id.
PluginIsPooled(id) ==
    \/ poolHas(additionalPluginPool, PluginRequest(id))
    \/ poolHas(additionalPluginPool, id)

\* C22: the pools come before the files.  A parser whose id is in the pool
\* of parsers is the object of the pool; a plugin whose package name or
\* whose id is in the pool of plugins is the object of the pool, the one
\* under the package name first; neither has an error, and no module
\* resolution is attempted for either, whether or not node_modules holds a
\* package of that name.  Every plugin is kept under its shorthand id.
C22_PoolsComeBeforeFiles ==
    /\ \A a \in result.log :
        /\ ~poolHas(additionalParserPool, a.request)
        /\ IsPluginRequest(a.request) =>
            /\ ~poolHas(additionalPluginPool, a.request)
            /\ ~poolHas(additionalPluginPool,
                        getShorthandName(a.request, EslintPluginPrefix))
    /\ \A p \in 1..Len(result.elems) :
        LET element == result.elems[p]
        IN  /\ (/\ element.parser # UndefObj
                /\ poolHas(additionalParserPool, element.parser.id)) =>
                    /\ element.parser.error = NoError
                    /\ element.parser.definition =
                        additionalParserPool[element.parser.id]
            /\ element.plugins # UndefObj =>
                \A i \in 1..Len(element.plugins.map) :
                    LET dep == element.plugins.map[i]
                    IN  /\ dep.id = getShorthandName(PluginRequest(dep.id),
                                                     EslintPluginPrefix)
                        /\ ~startsWith(dep.id, EslintPluginPrefix \o <<"-">>)
                        /\ \A j \in 1..Len(element.plugins.map) :
                            element.plugins.map[j].id = dep.id => j = i
                        /\ (PluginIsPooled(dep.id)
                            /\ \A k \in 1..Len(dep.id) :
                                dep.id[k] \notin Whitespace) =>
                            /\ dep.error = NoError
                            /\ dep.definition =
                                IF poolHas(additionalPluginPool,
                                           PluginRequest(dep.id))
                                THEN additionalPluginPool[PluginRequest(dep.id)]
                                ELSE additionalPluginPool[dep.id]
    /\ (EntryListsPlugins /\ ~result.threw) =>
        \A i \in 1..Len(EntryData.plugins) :
            \E j \in 1..Len(OwnElems[Len(OwnElems)].plugins.map) :
                OwnElems[Len(OwnElems)].plugins.map[j].id
                    = PluginIds(EntryData.plugins)[i]

\* A config declaring the parser of the pool and listing the plugin p by
\* its shorthand was resolved after the plugin was added under its package
\* name, while node_modules holds a package for each: both are the objects
\* of the pools and only the plugin outside the pool was resolved.
C22_Witness ==
    /\ call.op = "create" /\ call.data = "pool_deps" /\ ~result.threw
    /\ DOMAIN additionalPluginPool = { PluginRequest(<<"p">>) }
    /\ exists(PluginPPath) /\ exists(PoolParserPath)
    /\ LET own == OwnElems[Len(OwnElems)]
       IN  /\ own.parser.id = <<"poolparser">>
           /\ own.parser.definition = additionalParserPool[<<"poolparser">>]
           /\ own.parser.definition # Content(fs[PoolParserPath]).data
           /\ own.plugins.map[1].id = <<"p">>
           /\ own.plugins.map[1].definition = PoolPlugin
           /\ own.plugins.map[1].definition # Content(fs[PluginPPath]).data
           /\ own.plugins.map[2].error # NoError
    /\ { a.request : a \in result.log } = { PluginRequest(<<"missing">>) }

\* What loading the default parser relative to the importer of dep gives.
EspreeOfImporter(dep) ==
    requireResolved(<<"espree">>,
                    IF dep.importerPath = <<>>
                    THEN pathJoin(Cwd, <<".", "eslintrc">>)
                    ELSE dep.importerPath)

\* C23: a parser dependency with the id `espree` never has an error.  When
\* loading it relative to the importer fails (no copy is found, or the copy
\* found throws) the dependency carries the definition and the path of the
\* parser bundled with ESLint; otherwise it carries the copy that was found.
C23_EspreeFallsBackToBundled ==
    \A p \in 1..Len(result.elems) :
        LET dep == result.elems[p].parser
        IN  (dep # UndefObj /\ dep.id = <<"espree">>) =>
                LET m == EspreeOfImporter(dep)
                IN  /\ dep.error = NoError
                    /\ Attempt(<<"espree">>,
                               IF dep.importerPath = <<>>
                               THEN pathJoin(Cwd, <<".", "eslintrc">>)
                               ELSE dep.importerPath) \in result.log
                    /\ ~m.module.ok =>
                        /\ dep.definition = Content("espree").data
                        /\ dep.filePath = espreePath
                    /\ m.module.ok =>
                        /\ dep.definition = m.module.data
                        /\ dep.filePath = m.filePath

\* A config declaring the parser `espree` was resolved in a project without
\* a copy of it: its parser is the bundled one.
C23_Witness ==
    /\ call.op \in { "create", "loadFile" } /\ ~result.threw
    /\ ~exists(LocalEspreePath)
    /\ OwnElems # <<>>
    /\ LET dep == OwnElems[Len(OwnElems)].parser
       IN  /\ dep # UndefObj
           /\ dep.id = <<"espree">>
           /\ dep.error = NoError
           /\ dep.definition = Content("espree").data
           /\ dep.filePath = espreePath
           /\ ~EspreeOfImporter(dep).module.ok

\* Whether the element at position p of the last result applies to the
\* file the config was extracted for.
AppliesToExtracted(p) ==
    \/ result.elems[p].criteria = Null
    \/ OverrideTesterTest(result.elems[p].criteria, config.filePath)

\* The positions of the applying elements that set the rule.
SettersOf(ruleId) ==
    { p \in 1..Len(result.elems) :
        /\ AppliesToExtracted(p)
        /\ result.elems[p].rules # UndefObj
        /\ ruleId \in DOMAIN result.elems[p].rules }

\* The greatest position of a non-empty set of positions.
LastOf(positions) == CHOOSE p \in positions : \A q \in positions : q <= p

\* C24: the config extracted for a file has exactly the rules set by the
\* elements whose criteria is null or matches the file; the value of each
\* is the array form ([n] for a bare severity n, the array itself for an
\* array) of the value the last such element gives it; its parser and its
\* processor are those of the last such element having one.  Elements
\* whose criteria does not match the file contribute nothing.
C24_ExtractFoldsMatchingInOrder ==
    config # NoConfig =>
        LET rules == config.value.rules
            SetRules == UNION { DOMAIN result.elems[p].rules :
                                p \in { q \in 1..Len(result.elems) :
                                        result.elems[q].rules # UndefObj } }
            WithParser == { p \in 1..Len(result.elems) :
                            /\ AppliesToExtracted(p)
                            /\ result.elems[p].parser # UndefObj }
            WithProcessor == { p \in 1..Len(result.elems) :
                               /\ AppliesToExtracted(p)
                               /\ result.elems[p].processor # UndefStr }
        IN  /\ DOMAIN rules = { ruleId \in SetRules : SettersOf(ruleId) # {} }
            /\ \A ruleId \in DOMAIN rules :
                LET given == result.elems[LastOf(SettersOf(ruleId))].rules[ruleId]
                IN  /\ Len(rules[ruleId]) >= 1
                    /\ given.t = "num" => rules[ruleId] = << given.v[1] >>
                    /\ given.t = "arr" => rules[ruleId] = given.v
            /\ config.value.parser =
                IF WithParser = {} THEN UndefObj
                ELSE result.elems[LastOf(WithParser)].parser
            /\ config.value.processor =
                IF WithProcessor = {} THEN UndefStr
                ELSE result.elems[LastOf(WithProcessor)].processor

\* A config was extracted from an array in which two applying elements give
\* one rule different values and an element that does not apply sets a rule
\* no applying element sets: the config has the later value in array form
\* and lacks the rule of the element that does not apply.
C24_Witness ==
    /\ config # NoConfig
    /\ \E ruleId \in DOMAIN config.value.rules :
        \E p, q \in SettersOf(ruleId) :
            /\ p < q
            /\ q = LastOf(SettersOf(ruleId))
            /\ result.elems[p].rules[ruleId] # result.elems[q].rules[ruleId]
            /\ result.elems[q].rules[ruleId].t = "num"
            /\ config.value.rules[ruleId]
                = << result.elems[q].rules[ruleId].v[1] >>
    /\ \E r \in 1..Len(result.elems) :
        /\ ~AppliesToExtracted(r)
        /\ result.elems[r].rules # UndefObj
        /\ \E ruleId \in DOMAIN result.elems[r].rules :
            ruleId \notin DOMAIN config.value.rules

\* The positions of the elements of the last result that hold the created
\* dependency c: as their parser when it was made for a parser, among their
\* plugins when it was made for an entry of a plugins list.
HoldersOf(c) ==
    { p \in 1..Len(result.elems) :
        LET element == result.elems[p]
        IN  \/ /\ c.site.kind = "parser"
               /\ element.parser = c.created
            \/ /\ c.site.kind = "plugins"
               /\ element.plugins # UndefObj
               /\ \E j \in 1..Len(element.plugins.map) :
                    element.plugins.map[j] = c.created }

\* The claim as stated: every dependency created during a resolution that
\* returned is held by exactly one element of the returned array.
C25_EveryDependencyHeldOnce ==
    ~result.threw =>
        \A c \in result.created : Cardinality(HoldersOf(c)) = 1

\* C25: no dependency created during a resolution that returned is held by
\* two elements.  One created for the parser or for an entry of the plugins
\* of a config is held by exactly one element, the one the config yields
\* for itself; one created to resolve `extends: plugin:<p>/<c>` is held by
\* no element.  Every parser and every plugin of an element the call made,
\* but the plugin refused for whitespace in its name, was created during it.
C25_DependencyHeldAtMostOnce ==
    ~result.threw =>
        /\ \A c \in result.created :
            /\ c.site.kind \in { "parser", "plugins", "extends" }
            /\ Cardinality(HoldersOf(c)) <= 1
            /\ c.site.kind = "extends" =>
                /\ HoldersOf(c) = {}
                /\ startsWith(c.site.entry, <<"plugin", ":">>)
            /\ c.site.kind # "extends" =>
                \E p \in HoldersOf(c) :
                    /\ p > result.inherited
                    /\ result.elems[p].name = c.created.importerName
                    /\ result.elems[p].filePath = c.created.importerPath
        /\ \A p \in (result.inherited + 1)..Len(result.elems) :
            LET element == result.elems[p]
            IN  /\ element.parser # UndefObj =>
                    \E c \in result.created :
                        c.site.kind = "parser" /\ c.created = element.parser
                /\ element.plugins # UndefObj =>
                    \A j \in 1..Len(element.plugins.map) :
                        LET dep == element.plugins.map[j]
                        IN  IF dep.error # NoError
                               /\ dep.error.messageTemplate = "whitespace-found"
                            THEN \A c \in result.created : c.created # dep
                            ELSE \E c \in result.created :
                                    /\ c.site.kind = "plugins"
                                    /\ c.created = dep

\* A config extending a config of the plugin p was resolved: the plugin
\* loaded for it is held by no element, while a dependency made for a
\* parser or a plugins entry during the same call is held by one.
C25_Witness ==
    /\ ~result.threw
    /\ \E c \in result.created :
        /\ c.site.kind = "extends"
        /\ c.created.id = <<"p">>
        /\ c.created.error = NoError
        /\ HoldersOf(c) = {}
        /\ \E p \in 1..Len(result.elems) :
            result.elems[p].filePath = c.created.filePath
    /\ \E c \in result.created :
        /\ c.site.kind # "extends"
        /\ Cardinality(HoldersOf(c)) = 1

\* The config arrays a caller of the engine can get without a new
\* resolution: the one returned last and the ones the enumerator keeps.
ArraysInUse == { result.elems } \cup { cache[d] : d \in DOMAIN cache }

\* The plugins of the elements of an array, whitespace refusals left out.
PluginsOf(elems) ==
    UNION { { elems[p].plugins.map[j] : j \in 1..Len(elems[p].plugins.map) } :
            p \in { q \in 1..Len(elems) : elems[q].plugins # UndefObj } }

LoadedPluginsOf(elems) ==
    { dep \in PluginsOf(elems) :
        \A k \in 1..Len(dep.id) : dep.id[k] \notin Whitespace }

\* The claim as stated: every array in use lists the plugin added last with
\* the definition that was added.
C26_AddedDefinitionIsUsed ==
    added # NoPlugin =>
        \A elems \in ArraysInUse :
            \A dep \in LoadedPluginsOf(elems) :
                dep.id = getShorthandName(
                            normalizePackageName(added.name, EslintPluginPrefix),
                            EslintPluginPrefix)
                    => dep.definition = added.plugin

\* C26: a step that changes the pool of plugins is an addPlugin(name,
\* plugin) after which the pool maps name to plugin, keeps its other
\* entries, and the cache of the file enumerator is empty; and at all times
\* every plugin of an array in use that the pool has, under its package
\* name or under its id, carries the object the pool gives for it: the one
\* under the package name when there is one, else the one under the id.
C26_AddPluginSetsPoolAndClearsCache ==
    /\ [][ (additionalPluginPool' # additionalPluginPool \/ added' # added) =>
            /\ added' # NoPlugin
            /\ additionalPluginPool'
                = (added'.name :> added'.plugin) @@ additionalPluginPool
            /\ cache' = EmptyObj
            /\ result' = NoResult ]_vars
    /\ [](\A elems \in ArraysInUse :
            \A dep \in LoadedPluginsOf(elems) :
                PluginIsPooled(dep.id) =>
                    /\ dep.error = NoError
                    /\ dep.definition =
                        IF poolHas(additionalPluginPool, PluginRequest(dep.id))
                        THEN additionalPluginPool[PluginRequest(dep.id)]
                        ELSE additionalPluginPool[dep.id])

\* The plugin p was added under its package name and then, with another
\* object, under its shorthand; a config listing it was resolved through
\* the enumerator, which keeps the array: the plugin carries the object
\* kept under the package name, while node_modules holds a third one.
C26_Witness ==
    /\ call.op = "getConfigArrayForFile" /\ ~result.threw
    /\ call.filePath \in DOMAIN cache
    /\ cache[call.filePath] = result.elems
    /\ added # NoPlugin /\ added.name = <<"p">>
    /\ DOMAIN additionalPluginPool = PoolPluginNames
    /\ additionalPluginPool[<<"p">>] = added.plugin
    /\ additionalPluginPool[PluginRequest(<<"p">>)] # added.plugin
    /\ exists(PluginPPath)
    /\ \E dep \in LoadedPluginsOf(result.elems) :
        /\ dep.id = <<"p">>
        /\ dep.definition = additionalPluginPool[PluginRequest(<<"p">>)]
        /\ dep.definition # Content(fs[PluginPPath]).data

ReferencedFromLines(message) ==
    { i \in 1..Len(message) : message[i] = "\nReferenced from: " }

\* The config source that declares the `extends` entry about to be taken:
\* its file path, or its name when it has none.
Declarer == IF Head(frames).filePath = <<>> THEN Head(frames).name
            ELSE Head(frames).filePath

\* The step that takes an entry of `extends` ends the call with an error,
\* the call stack having room left.
ExtendsEntryFails ==
    /\ result = Pending /\ frames # <<>> /\ Head(frames).work # <<>>
    /\ Head(Head(frames).work).kind = "extends"
    /\ ~stackExhausted(Head(frames).d)
    /\ result' = Ended(TRUE)

\* C28: when an entry of `extends` cannot be resolved, loaded or validated,
\* at whatever depth of the chain, the message of the error the call throws
\* has one "Referenced from" line, which ends the message and names the
\* config source that declares the entry: its file path, or its name when
\* it has no file path.
C28_ReferencedFromDeclarerOnce ==
    [][ExtendsEntryFails
        => \E message \in { Outcome(call).err.message } :
            /\ Cardinality(ReferencedFromLines(message)) = 1
            /\ \A i \in ReferencedFromLines(message) :
                SubSeq(message, i + 1, Len(message)) = Declarer]_vars

\* The entry file extends a, a extends b and b is not there: the call
\* threw an error whose one "Referenced from" line names a, not the entry
\* file.
C28_Witness ==
    /\ call.op = "loadFile" /\ pathResolve(Cwd, call.filePath) = EntryPath
    /\ result = Ended(TRUE)
    /\ fs[EntryPath] = "ext_ab" /\ fs[ConfigAPath] = "ext_b"
    /\ fs[ConfigBPath] = "absent"
    /\ \E message \in { Outcome(call).err.message } :
        /\ Cardinality(ReferencedFromLines(message)) = 1
        /\ \E i \in ReferencedFromLines(message) :
            SubSeq(message, i + 1, Len(message)) = ConfigAPath

\* The signals the search of a directory takes for a file that is not
\* there.
SoftSignals == { "ENOENT", "MODULE_NOT_FOUND", "ESLINT_CONFIG_FIELD_NOT_FOUND" }

\* Loading the i-th config file name of a directory fails with a soft
\* signal.
FailsSoftly(dir, i) ==
    /\ ~loadConfigFile(Candidate(dir, i)).ok
    /\ loadConfigFile(Candidate(dir, i)).err.code \in SoftSignals

\* C29: loadOnDirectory goes past a config file name whose load fails
\* with a soft signal (no such file, module not found, package.json without
\* the eslintConfig field) and past no other: the first file name whose
\* load does not fail softly decides the call.  When its load fails, the
\* call throws that error, whatever the later file names would give; when
\* it loads, the file is not passed over: a call that returns is built from
\* it.
C29_OnlySoftFailuresAreSkipped ==
    call.op = "loadOnDirectory" =>
        \A i \in 1..Len(configFilenames) :
            (/\ \A j \in 1..(i - 1) : FailsSoftly(DirectoryPath, j)
             /\ ~FailsSoftly(DirectoryPath, i))
            => IF loadConfigFile(Candidate(DirectoryPath, i)).ok
               THEN ~result.threw => BuiltFrom(Candidate(DirectoryPath, i))
               ELSE /\ result.threw
                    /\ result.err
                        = loadConfigFile(Candidate(DirectoryPath, i)).err

\* The deprecated rules that a config used during the last run sets to a
\* severity other than off.
DeprecatedRulesInUse ==
    { ruleId \in DOMAIN ruleMap :
        /\ ruleMap[ruleId].deprecated
        /\ \E k \in 1..Len(report.configs) :
            /\ ruleId \in DOMAIN report.configs[k].rules
            /\ report.configs[k].rules[ruleId][1] # 0 }

\* C30: usedDeprecatedRules of a run of executeOnFiles or executeOnText
\* holds each deprecated rule that one of the configs used during the run
\* sets to a severity other than off, once, and no other rule, whatever
\* the order in which the configs are traversed.
C30_UsedDeprecatedRulesAreReported ==
    report # NoReport =>
        /\ \A ruleId \in DeprecatedRulesInUse :
            Cardinality({ i \in 1..Len(report.usedDeprecatedRules) :
                            report.usedDeprecatedRules[i] = ruleId }) = 1
        /\ \A i \in 1..Len(report.usedDeprecatedRules) :
            report.usedDeprecatedRules[i] \in DeprecatedRulesInUse
====
